---- MODULE Spec2Model ----
(***************************************************************************)
(* GYMLOGGER: sessions, set logs and personal bests.                       *)
(*                                                                         *)
(* The repository ships the same training log twice: the SQL-backed API    *)
(* (src/api/main.py over the tables of src/GYM/api/models.py) and the      *)
(* file-based prototype (the CLI src/GYM/app.py and the HTTP server        *)
(* src/server.py, both over data/db.json).  `backend` says which of the    *)
(* two a behaviour runs; the tables belong to the API, `db` to the file.   *)
(*                                                                         *)
(* Numbers: PersonalBest.value is a float in the code.  The model stores   *)
(* Scale * value as an integer, so est_1rm = weight * (1 + reps/30) is     *)
(* weight * (30 + reps).  The set logs drawn in SetInputs give estimates   *)
(* that lie far apart, so the float comparison and the integer comparison  *)
(* agree on them.                                                          *)
(***************************************************************************)
EXTENDS Integers, Sequences, FiniteSets, TLC

\* ---------------------------------------------------------------- bounds
\* Rows ever inserted in one behaviour: sessions started plus set logs logged.
MaxRows == 4

\* Programs ever created in one behaviour, those of the start included.
MaxPrograms == 3

\* Friend requests ever sent in one behaviour.
MaxRequests == 3

\* Workout templates ever created through the API's create_template in one
\* behaviour, those of the start included.
MaxTemplates == 2

\* Template rows ever added through the API's add_exercise_to_template in
\* one behaviour, those of the start included.
MaxTemplateRows == 2

\* ------------------------------------------------------------- constants
\* estimate_one_rm divides reps by 30; values are stored times Scale.
Scale == 30

Users == {1, 2}
Backends == {"api", "file"}

\* The bodies of log-set requests: exercise, weight, reps.  100 x 5 and
\* 90 x 8 are the spec's example: the estimate ranks 100 x 5 first (3500
\* against 3420 thirtieths), the volume ranks 90 x 8 first (720 against 500).
\* The third one is the same set on a second exercise.
SetInputs ==
    { [exercise_id |-> 1, weight |-> 100, reps |-> 5],
      [exercise_id |-> 1, weight |-> 90,  reps |-> 8],
      [exercise_id |-> 2, weight |-> 100, reps |-> 5] }

Exercises == {l.exercise_id : l \in SetInputs}
Kinds == {"est_1rm", "max_weight_reps", "max_volume"}

VARIABLES
    backend,          \* "api" or "file": which implementation runs
    templates,        \* API table WorkoutTemplate
    sessions,         \* API table Session
    set_logs,         \* API table SetLog
    personal_bests,   \* API table PersonalBest
    db,               \* the file backend's data/db.json
    next_session_id,  \* next fresh session id (either backend)
    next_set_log_id,  \* next fresh set log id (either backend)
    programs,         \* API table Program
    exercises,        \* API table Exercise
    template_exercises, \* API table TemplateExercise (the template rows)
    next_id,          \* next fresh id of the other entities (either backend)
    fork,             \* the copy_program_from_public request in flight, if any
    in_flight,        \* the requests handled one statement at a time, per worker
    friend_requests,  \* API table FriendRequest
    friendships       \* API table Friendship

api_vars == <<templates, sessions, set_logs, personal_bests>>
\* What the session handlers never write: programs, exercises, template
\* rows, the requests in flight and the friends tables.
more_vars == <<programs, exercises, template_exercises, next_id, fork,
               in_flight, friend_requests, friendships>>
vars == <<backend, templates, sessions, set_logs, personal_bests, db,
          next_session_id, next_set_log_id, more_vars>>

\* Rows inserted so far, against MaxRows.
rows_inserted == (next_session_id - 1) + (next_set_log_id - 1)

\* Every id a request may name: the ids handed out and one never handed out.
SessionIds == 1..next_session_id

\* datetime.now() at start: the n-th session is started on day n.
today == next_session_id

\* ------------------------------------------------------------ PB engine
\* An estimate_one_rm that adds reps / 30 to the weight instead of
\* multiplying by 1 + reps / 30.
estimate_one_rm_adds(weight, reps) == Scale * weight + reps

\* main.py estimate_one_rm: weight * (1 + reps / 30), times Scale.
estimate_one_rm(weight, reps) == weight * (Scale + reps)

\* main.py update_personal_bests, `entries`: (kind, label, value) in order.
\* A label is the text and, for max_weight_reps, the rep count it embeds.
entries(set_log) ==
    << [kind |-> "est_1rm", label |-> <<"1RM (est)", 0>>,
        value |-> estimate_one_rm(set_log.weight, set_log.reps)],
       [kind |-> "max_weight_reps", label |-> <<"Max weight for reps", set_log.reps>>,
        value |-> Scale * set_log.weight],
       [kind |-> "max_volume", label |-> <<"Max volume", 0>>,
        value |-> Scale * (set_log.weight * set_log.reps)] >>

\* Mutant of api_pb_match: a lookup that finds no row, so that every
\* candidate is inserted.
api_pb_match_finds_nothing(pb, owner_id, set_log, kind) == FALSE

\* Mutant of api_pb_match: the rep count is compared for no kind, so that
\* max_weight_reps has one row per owner and exercise.
api_pb_match_ignores_reps(pb, owner_id, set_log, kind) ==
    /\ pb.owner_id = owner_id
    /\ pb.exercise_id = set_log.exercise_id
    /\ pb.kind = kind

\* The WHERE clause of the lookup in main.py update_personal_bests: the rep
\* count is compared for every kind but est_1rm.
api_pb_match(pb, owner_id, set_log, kind) ==
    /\ pb.owner_id = owner_id
    /\ pb.exercise_id = set_log.exercise_id
    /\ pb.kind = kind
    /\ (IF kind # "est_1rm" THEN pb.reps = set_log.reps ELSE TRUE)

\* .first(): the matching row with the lowest id (rows come in id order).
first_row(rows) == CHOOSE r \in rows : \A q \in rows : r.id <= q.id

\* Mutant of api_merge_entry: the existing row is overwritten whenever the
\* candidate differs from it, greater or smaller.
api_merge_entry_overwrite(pbs, owner_id, sess, set_log, e) ==
    LET found == {pb \in pbs : api_pb_match(pb, owner_id, set_log, e.kind)}
    IN  IF found # {}
        THEN LET existing == first_row(found)
             IN  IF e.value # existing.value
                 THEN (pbs \ {existing}) \cup
                      {[existing EXCEPT !.value = e.value,
                                        !.reps = set_log.reps,
                                        !.date = sess.date,
                                        !.set_log_id = set_log.id,
                                        !.label = e.label]}
                 ELSE pbs
        ELSE pbs \cup
             {[id |-> Cardinality(pbs) + 1,
               owner_id |-> owner_id,
               exercise_id |-> set_log.exercise_id,
               kind |-> e.kind,
               label |-> e.label,
               value |-> e.value,
               reps |-> set_log.reps,
               date |-> sess.date,
               set_log_id |-> set_log.id,
               is_public |-> FALSE]}

\* One turn of the loop of main.py update_personal_bests.
api_merge_entry(pbs, owner_id, sess, set_log, e) ==
    LET found == {pb \in pbs : api_pb_match(pb, owner_id, set_log, e.kind)}
    IN  IF found # {}
        THEN LET existing == first_row(found)
             IN  IF e.value > existing.value
                 THEN (pbs \ {existing}) \cup
                      {[existing EXCEPT !.value = e.value,
                                        !.reps = set_log.reps,
                                        !.date = sess.date,
                                        !.set_log_id = set_log.id,
                                        !.label = e.label]}
                 ELSE pbs
        ELSE pbs \cup
             {[id |-> Cardinality(pbs) + 1,
               owner_id |-> owner_id,
               exercise_id |-> set_log.exercise_id,
               kind |-> e.kind,
               label |-> e.label,
               value |-> e.value,
               reps |-> set_log.reps,
               date |-> sess.date,
               set_log_id |-> set_log.id,
               is_public |-> FALSE]}

\* main.py update_personal_bests: the three entries of one set log, in order.
update_personal_bests(pbs, owner_id, sess, set_log) ==
    LET es == entries(set_log)
        p1 == api_merge_entry(pbs, owner_id, sess, set_log, es[1])
        p2 == api_merge_entry(p1, owner_id, sess, set_log, es[2])
    IN  api_merge_entry(p2, owner_id, sess, set_log, es[3])

\* The for loop of main.py finish_session over the selected set logs.
RECURSIVE api_merge_logs(_, _, _, _)
api_merge_logs(pbs, owner_id, sess, logs) ==
    IF logs = << >> THEN pbs
    ELSE api_merge_logs(update_personal_bests(pbs, owner_id, sess, Head(logs)),
                        owner_id, sess, Tail(logs))

\* select(SetLog).where(session_id == ...).all() has no ORDER BY: the rows
\* may come in any order.
RECURSIVE select_all(_)
select_all(rows) ==
    IF rows = {} THEN {<< >>}
    ELSE UNION {{<<r>> \o rest : rest \in select_all(rows \ {r})} : r \in rows}


\* ------------------------------------------------------------- API
\* session.get(WorkoutSession, id) and the like: the row, as a set of 0 or 1.
get_session(session_id) == {s \in sessions : s.id = session_id}
get_template(template_id) == {t \in templates : t.id = template_id}
logs_of(session_id) == {l \in set_logs : l.session_id = session_id}

\* The HTTP status of start_session: 404 without the template, 403
\* (ensure_owner) for another user's template.
start_session_status(user, template_id) ==
    IF get_template(template_id) = {} THEN 404
    ELSE IF \E t \in get_template(template_id) : t.owner_id # user THEN 403
    ELSE 200

\* A session_op_status without ensure_owner: any user may write to any
\* session.
session_op_status_no_owner_check(user, session_id) ==
    IF get_session(session_id) = {} THEN 404 ELSE 200

\* The HTTP status of log_set, finish_session, cancel_session and
\* delete_session, which open alike: 404 without the session, 403
\* (ensure_owner) for another user's session.  No status is read.
session_op_status(user, session_id) ==
    IF get_session(session_id) = {} THEN 404
    ELSE IF \E s \in get_session(session_id) : s.owner_id # user THEN 403
    ELSE 200

log_set_status(user, session_id) == session_op_status(user, session_id)
finish_session_status(user, session_id) == session_op_status(user, session_id)
cancel_session_status(user, session_id) == session_op_status(user, session_id)
delete_session_status(user, session_id) == session_op_status(user, session_id)

\* main.py start_session.  An HTTPException is raised before anything is
\* written, so a failed request leaves the store as it was.
start_session(user, template_id, date) ==
    /\ backend = "api"
    /\ rows_inserted < MaxRows
    /\ IF start_session_status(user, template_id) # 200 THEN UNCHANGED vars
       ELSE LET tpl == CHOOSE t \in get_template(template_id) : TRUE
            IN  /\ sessions' = sessions \cup
                       {[id |-> next_session_id,
                         owner_id |-> user,
                         template_id |-> tpl.id,
                         program_id |-> tpl.program_id,
                         date |-> date,
                         status |-> "in_progress"]}
                /\ next_session_id' = next_session_id + 1
                /\ UNCHANGED <<backend, more_vars, templates, set_logs, personal_bests,
                               db, next_set_log_id>>

\* main.py log_set
log_set(user, session_id, log) ==
    /\ backend = "api"
    /\ rows_inserted < MaxRows
    /\ IF log_set_status(user, session_id) # 200 THEN UNCHANGED vars
       ELSE /\ set_logs' = set_logs \cup
                   {[id |-> next_set_log_id,
                     session_id |-> session_id,
                     exercise_id |-> log.exercise_id,
                     weight |-> log.weight,
                     reps |-> log.reps]}
            /\ next_set_log_id' = next_set_log_id + 1
            /\ UNCHANGED <<backend, more_vars, templates, sessions, personal_bests,
                           db, next_session_id>>

\* main.py finish_session
finish_session(user, session_id) ==
    /\ backend = "api"
    /\ IF finish_session_status(user, session_id) # 200 THEN UNCHANGED vars
       ELSE LET sess == CHOOSE s \in get_session(session_id) : TRUE
            IN  \E logs \in select_all(logs_of(sess.id)) :
                    /\ sessions' = (sessions \ {sess}) \cup
                                   {[sess EXCEPT !.status = "done"]}
                    /\ personal_bests' =
                           api_merge_logs(personal_bests, user, sess, logs)
                    /\ UNCHANGED <<backend, more_vars, templates, set_logs, db,
                                   next_session_id, next_set_log_id>>

\* main.py cancel_session
cancel_session(user, session_id) ==
    /\ backend = "api"
    /\ IF cancel_session_status(user, session_id) # 200 THEN UNCHANGED vars
       ELSE LET sess == CHOOSE s \in get_session(session_id) : TRUE
            IN  /\ sessions' = (sessions \ {sess}) \cup
                               {[sess EXCEPT !.status = "cancelled"]}
                /\ set_logs' = set_logs \ logs_of(sess.id)
                /\ UNCHANGED <<backend, more_vars, templates, personal_bests, db,
                               next_session_id, next_set_log_id>>

\* main.py delete_session
delete_session(user, session_id) ==
    /\ backend = "api"
    /\ IF delete_session_status(user, session_id) # 200 THEN UNCHANGED vars
       ELSE /\ set_logs' = set_logs \ logs_of(session_id)
            /\ sessions' = sessions \ get_session(session_id)
            /\ UNCHANGED <<backend, more_vars, templates, personal_bests, db,
                           next_session_id, next_set_log_id>>

\* main.py clear_active_sessions
clear_active_sessions(user) ==
    /\ backend = "api"
    /\ LET active_sessions ==
               {s \in sessions : s.owner_id = user /\ s.status = "in_progress"}
       IN  /\ set_logs' = {l \in set_logs :
                              \A s \in active_sessions : l.session_id # s.id}
           /\ sessions' = sessions \ active_sessions
    /\ UNCHANGED <<backend, more_vars, templates, personal_bests, db,
                   next_session_id, next_set_log_id>>

\* ------------------------------------------- API: programs and templates
\* The tables are those of the default build: SQLite without
\* PRAGMA foreign_keys, so a delete goes through whatever still refers to
\* the row.  Every handler commits once, at its end.
friend_vars == <<friend_requests, friendships>>

get_program(program_id) == {p \in programs : p.id = program_id}
get_row(row_id) == {r \in template_exercises : r.id = row_id}
get_pb(pb_id) == {pb \in personal_bests : pb.id = pb_id}

\* The HTTP status of delete_program: 404 without the program, 403
\* (ensure_owner) for another user's program.
delete_program_status(user, program_id) ==
    IF get_program(program_id) = {} THEN 404
    ELSE IF \E p \in get_program(program_id) : p.owner_id # user THEN 403
    ELSE 200

\* The HTTP status of delete_template, and of the opening of the handlers of
\* a template's rows.
delete_template_status(user, template_id) ==
    IF get_template(template_id) = {} THEN 404
    ELSE IF \E tpl \in get_template(template_id) : tpl.owner_id # user THEN 403
    ELSE 200

\* The HTTP status of remove_exercise_from_template: after the template's
\* checks, 404 when the row does not exist or belongs to another template.
remove_exercise_from_template_status(user, template_id, row_id) ==
    IF delete_template_status(user, template_id) # 200
    THEN delete_template_status(user, template_id)
    ELSE IF \A r \in get_row(row_id) : r.template_id # template_id THEN 404
    ELSE 200

publish_pb_status(user, pb_id) ==
    IF get_pb(pb_id) = {} THEN 404
    ELSE IF \E pb \in get_pb(pb_id) : pb.owner_id # user THEN 403
    ELSE 200

\* A delete_program that also deleted the PersonalBest rows won in the
\* program's sessions; the handler does not do this.
delete_program_drops_pbs(user, program_id) ==
    /\ backend = "api"
    /\ IF delete_program_status(user, program_id) # 200 THEN UNCHANGED vars
       ELSE LET tpls == {tpl \in templates : tpl.program_id = program_id}
                sess == {s \in sessions : s.program_id = program_id}
            IN  /\ template_exercises' =
                       {r \in template_exercises :
                            \A tpl \in tpls : r.template_id # tpl.id}
                /\ templates' = templates \ tpls
                /\ sessions' = sessions \ sess
                /\ programs' = programs \ get_program(program_id)
                /\ personal_bests' =
                       {pb \in personal_bests :
                            \A l \in set_logs :
                                l.id = pb.set_log_id =>
                                    \A s \in sess : l.session_id # s.id}
                /\ UNCHANGED <<backend, set_logs, db,
                               next_session_id, next_set_log_id, exercises,
                               next_id, fork, in_flight, friend_vars>>

\* main.py delete_program: the program's templates with their rows, the
\* sessions with program_id, the program.  No SetLog is selected or deleted.
delete_program(user, program_id) ==
    /\ backend = "api"
    /\ IF delete_program_status(user, program_id) # 200 THEN UNCHANGED vars
       ELSE LET tpls == {tpl \in templates : tpl.program_id = program_id}
            IN  /\ template_exercises' =
                       {r \in template_exercises :
                            \A tpl \in tpls : r.template_id # tpl.id}
                /\ templates' = templates \ tpls
                /\ sessions' = {s \in sessions : s.program_id # program_id}
                /\ programs' = programs \ get_program(program_id)
                /\ UNCHANGED <<backend, set_logs, personal_bests, db,
                               next_session_id, next_set_log_id, exercises,
                               next_id, fork, in_flight, friend_vars>>

\* A delete_template that went a level further and also deleted the
\* sessions started from the template; the handler does not do this.
delete_template_drops_sessions(user, template_id) ==
    /\ backend = "api"
    /\ IF delete_template_status(user, template_id) # 200 THEN UNCHANGED vars
       ELSE /\ template_exercises' =
                   {r \in template_exercises : r.template_id # template_id}
            /\ templates' = templates \ get_template(template_id)
            /\ sessions' = {s \in sessions : s.template_id # template_id}
            /\ UNCHANGED <<backend, set_logs, personal_bests, db,
                           next_session_id, next_set_log_id, programs,
                           exercises, next_id, fork, in_flight, friend_vars>>

\* main.py delete_template: the template's rows, then the template.
delete_template(user, template_id) ==
    /\ backend = "api"
    /\ IF delete_template_status(user, template_id) # 200 THEN UNCHANGED vars
       ELSE /\ template_exercises' =
                   {r \in template_exercises : r.template_id # template_id}
            /\ templates' = templates \ get_template(template_id)
            /\ UNCHANGED <<backend, sessions, set_logs, personal_bests, db,
                           next_session_id, next_set_log_id, programs,
                           exercises, next_id, fork, in_flight, friend_vars>>

\* main.py remove_exercise_from_template: the row, and nothing else.
remove_exercise_from_template(user, template_id, row_id) ==
    /\ backend = "api"
    /\ IF remove_exercise_from_template_status(user, template_id, row_id) # 200
       THEN UNCHANGED vars
       ELSE /\ template_exercises' = template_exercises \ get_row(row_id)
            /\ UNCHANGED <<backend, templates, sessions, set_logs,
                           personal_bests, db, next_session_id,
                           next_set_log_id, programs, exercises, next_id,
                           fork, in_flight, friend_vars>>

\* main.py publish_pb
publish_pb(user, pb_id, is_public) ==
    /\ backend = "api"
    /\ IF publish_pb_status(user, pb_id) # 200 THEN UNCHANGED vars
       ELSE /\ personal_bests' =
                   {IF pb.id = pb_id THEN [pb EXCEPT !.is_public = is_public]
                    ELSE pb : pb \in personal_bests}
            /\ UNCHANGED <<backend, templates, sessions, set_logs, db,
                           next_session_id, next_set_log_id, more_vars>>

\* ---------------------------------------------- API: publish and fork
\* No copy_program_from_public request is in flight.
NoFork == [pc |-> "idle"]

\* The server handles requests side by side: uvicorn runs the handlers of
\* main.py in a thread pool, server.py is a ThreadingHTTPServer.  Two
\* workers are enough for every interleaving of two requests.
Workers == {1, 2}
Idle == [pc |-> "idle"]
NoRequests == [w \in Workers |-> Idle]

\* The ids of a set of rows in ascending order: the order in which the
\* selects of copy_program_from_public, which have no ORDER BY, are taken to
\* return their rows.
RECURSIVE sorted_ids(_)
sorted_ids(ids) ==
    IF ids = {} THEN <<>>
    ELSE LET m == CHOOSE x \in ids : \A y \in ids : x <= y
         IN  <<m>> \o sorted_ids(ids \ {m})

get_exercise(exercise_id) == {e \in exercises : e.id = exercise_id}

\* The HTTP status of delete_exercise
delete_exercise_status(user, exercise_id) ==
    IF get_exercise(exercise_id) = {} THEN 404
    ELSE IF \E e \in get_exercise(exercise_id) : e.owner_id # user THEN 403
    ELSE 200

\* main.py delete_exercise: the exercise only; the template rows and the set
\* logs that name it keep its id.
delete_exercise(user, exercise_id) ==
    /\ backend = "api"
    /\ IF delete_exercise_status(user, exercise_id) # 200 THEN UNCHANGED vars
       ELSE /\ exercises' = exercises \ get_exercise(exercise_id)
            /\ UNCHANGED <<backend, api_vars, db, next_session_id,
                           next_set_log_id, programs, template_exercises,
                           next_id, fork, in_flight, friend_vars>>

\* main.py publish_program (its status is that of delete_program: 404, 403)
publish_program(user, program_id, is_public) ==
    /\ backend = "api"
    /\ IF delete_program_status(user, program_id) # 200 THEN UNCHANGED vars
       ELSE /\ programs' =
                   {IF p.id = program_id THEN [p EXCEPT !.is_public = is_public]
                    ELSE p : p \in programs}
            /\ UNCHANGED <<backend, api_vars, db, next_session_id,
                           next_set_log_id, exercises, template_exercises,
                           next_id, fork, in_flight, friend_vars>>

\* ------------------------------------------ API: create and update
\* "for field, value in updates.items(): setattr(obj, field, value)": the
\* fields the payload sets replace the row's, the other fields stay.  Of the
\* payload only the columns the model keeps are looked at.
setattrs(obj, updates) ==
    [f \in DOMAIN obj |-> IF f \in DOMAIN updates THEN updates[f] ELSE obj[f]]

\* The HTTP status of update_program, which opens like delete_program: 404
\* without the program, 403 (ensure_owner) for another user's program.
update_program_status(user, program_id) ==
    delete_program_status(user, program_id)

\* main.py update_program: every field the payload sets is written, status,
\* version, visibility and is_public among them.
update_program(user, program_id, payload) ==
    /\ backend = "api"
    /\ IF update_program_status(user, program_id) # 200 THEN UNCHANGED vars
       ELSE /\ programs' =
                   {IF pr.id = program_id THEN setattrs(pr, payload)
                    ELSE pr : pr \in programs}
            /\ UNCHANGED <<backend, api_vars, db, next_session_id,
                           next_set_log_id, exercises, template_exercises,
                           next_id, fork, in_flight, friend_vars>>

\* main.py create_template: the row is built from the payload and the
\* caller's id and committed; payload.program_id is not looked up, so the
\* handler has no failing branch.
create_template(user, payload) ==
    /\ backend = "api"
    /\ next_id.template <= MaxTemplates
    /\ templates' = templates \cup
           {[id |-> next_id.template,
             owner_id |-> user,
             program_id |-> payload.program_id]}
    /\ next_id' = [next_id EXCEPT !.template = @ + 1]
    /\ UNCHANGED <<backend, sessions, set_logs, personal_bests, db,
                   next_session_id, next_set_log_id, programs, exercises,
                   template_exercises, fork, in_flight, friend_vars>>

\* The HTTP status of update_template and add_exercise_to_template, which
\* open like delete_template: 404 without the template, 403 (ensure_owner)
\* for another user's template.
update_template_status(user, template_id) ==
    delete_template_status(user, template_id)

add_exercise_to_template_status(user, template_id) ==
    delete_template_status(user, template_id)

\* main.py update_template: the payload's fields are written as they come;
\* a program_id in the payload is not looked up.
update_template(user, template_id, payload) ==
    /\ backend = "api"
    /\ IF update_template_status(user, template_id) # 200 THEN UNCHANGED vars
       ELSE /\ templates' =
                   {IF tpl.id = template_id THEN setattrs(tpl, payload)
                    ELSE tpl : tpl \in templates}
            /\ UNCHANGED <<backend, sessions, set_logs, personal_bests, db,
                           next_session_id, next_set_log_id, programs,
                           exercises, template_exercises, next_id, fork, in_flight,
                           friend_vars>>

\* main.py add_exercise_to_template: a row of the template from the payload;
\* row.exercise_id is not looked up.
add_exercise_to_template(user, template_id, row) ==
    /\ backend = "api"
    /\ next_id.template_exercise <= MaxTemplateRows
    /\ IF add_exercise_to_template_status(user, template_id) # 200
       THEN UNCHANGED vars
       ELSE /\ template_exercises' = template_exercises \cup
                   {[id |-> next_id.template_exercise,
                     template_id |-> template_id,
                     exercise_id |-> row.exercise_id,
                     planned_sets |-> row.planned_sets]}
            /\ next_id' = [next_id EXCEPT !.template_exercise = @ + 1]
            /\ UNCHANGED <<backend, api_vars, db, next_session_id,
                           next_set_log_id, programs, exercises, fork, in_flight,
                           friend_vars>>

\* The HTTP status of update_exercise_in_template, which is that of
\* remove_exercise_from_template for payload.row_id.
update_exercise_in_template_status(user, template_id, payload) ==
    remove_exercise_from_template_status(user, template_id, payload.row_id)

\* main.py update_exercise_in_template: the payload without row_id is
\* written to the row.
update_exercise_in_template(user, template_id, payload) ==
    /\ backend = "api"
    /\ IF update_exercise_in_template_status(user, template_id, payload) # 200
       THEN UNCHANGED vars
       ELSE LET updates == [f \in DOMAIN payload \ {"row_id"} |-> payload[f]]
            IN  /\ template_exercises' =
                       {IF r.id = payload.row_id THEN setattrs(r, updates)
                        ELSE r : r \in template_exercises}
                /\ UNCHANGED <<backend, api_vars, db, next_session_id,
                               next_set_log_id, programs, exercises, next_id,
                               fork, in_flight, friend_vars>>

\* The HTTP status of update_exercise: 404 without the exercise, 403
\* (ensure_owner) for another user's exercise, 400 when another exercise of
\* the caller has the payload's name.  A name of the model stands for the
\* cleaned, lower-cased name the handler compares.
update_exercise_status(user, exercise_id, payload) ==
    IF get_exercise(exercise_id) = {} THEN 404
    ELSE IF \E e \in get_exercise(exercise_id) : e.owner_id # user THEN 403
    ELSE IF /\ "name" \in DOMAIN payload
            /\ \E dup \in exercises : /\ dup.owner_id = user
                                      /\ dup.name = payload.name
                                      /\ dup.id # exercise_id
    THEN 400
    ELSE 200

\* main.py update_exercise
update_exercise(user, exercise_id, payload) ==
    /\ backend = "api"
    /\ IF update_exercise_status(user, exercise_id, payload) # 200
       THEN UNCHANGED vars
       ELSE /\ exercises' =
                   {IF e.id = exercise_id THEN setattrs(e, payload)
                    ELSE e : e \in exercises}
            /\ UNCHANGED <<backend, api_vars, db, next_session_id,
                           next_set_log_id, programs, template_exercises,
                           next_id, fork, in_flight, friend_vars>>

\* A copy_program_status that lets every caller through.
copy_program_status_open(user, program_id) ==
    IF get_program(program_id) = {} THEN 404 ELSE 200

\* The HTTP status of copy_program_from_public: 404 without the source, 403
\* when the caller does not own it and it is not public.
copy_program_status(user, program_id) ==
    IF get_program(program_id) = {} THEN 404
    ELSE IF \E source \in get_program(program_id) :
                source.owner_id # user /\ ~source.is_public
    THEN 403
    ELSE 200

\* Where copy_program_from_public goes on after a commit: the exercises not
\* copied yet, then the templates, then the last commit.
fork_pc(f) ==
    IF f.i < Len(f.exercises) THEN "exercises"
    ELSE IF f.j < Len(f.templates) THEN "templates"
    ELSE "commit"

\* A program as the fork would write it if it took the source's version,
\* visibility and is_public.
new_program_from_source(user, source) ==
    [id |-> next_id.program, owner_id |-> user, status |-> source.status,
     version |-> source.version, visibility |-> source.visibility,
     is_public |-> source.is_public]

\* main.py copy_program_from_public, new_program
new_program(user, source) ==
    [id |-> next_id.program, owner_id |-> user, status |-> source.status,
     version |-> 1, visibility |-> "private", is_public |-> FALSE]

\* main.py copy_program_from_public, up to its first commit: the checks, the
\* reads of the source's templates, rows and exercises into local variables,
\* and the insert of the new program.  The handler commits after every
\* insert, and other requests are served between its commits, so each commit
\* ends a step; fork holds the local variables of the request in progress.
copy_program_from_public(user, program_id) ==
    /\ backend = "api"
    /\ fork.pc = "idle"
    /\ next_id.program <= MaxPrograms
    /\ IF copy_program_status(user, program_id) # 200 THEN UNCHANGED vars
       ELSE LET source == CHOOSE p \in get_program(program_id) : TRUE
                tpls == {tpl \in templates : tpl.program_id = source.id}
                rows == {r \in template_exercises :
                             \E tpl \in tpls : r.template_id = tpl.id}
                exercise_ids == {r.exercise_id : r \in rows}
                found == {e.id : e \in {x \in exercises :
                                            x.id \in exercise_ids}}
                f == [pc |-> "commit",
                      user |-> user,
                      source |-> source.id,
                      templates |-> sorted_ids({tpl.id : tpl \in tpls}),
                      rows_by_tpl |->
                          [x \in {tpl.id : tpl \in tpls} |->
                              sorted_ids({r.id : r \in
                                  {y \in rows : y.template_id = x}})],
                      exercise_ids |-> exercise_ids,
                      exercises |-> sorted_ids(found),
                      new_program |-> next_id.program,
                      new_ex_map |-> <<>>,
                      new_tpl |-> 0,
                      new_rows |-> <<>>,
                      new_templates |-> <<>>,
                      i |-> 0, j |-> 0, k |-> 0]
            IN  /\ programs' = programs \cup {new_program(user, source)}
                /\ next_id' = [next_id EXCEPT !.program = @ + 1]
                /\ fork' = [f EXCEPT !.pc = fork_pc(f)]
                /\ UNCHANGED <<backend, api_vars, db, next_session_id,
                               next_set_log_id, exercises,
                               template_exercises, in_flight, friend_vars>>

\* new_ex_map.get(exercise_id): the copy of a source exercise, 0 (None) when
\* the exercise was not among those read.  new_ex_map lists the copies in the
\* order of fork.exercises.
mapped_ex_id(f, exercise_id) ==
    IF \E n \in 1..Len(f.new_ex_map) : f.exercises[n] = exercise_id
    THEN f.new_ex_map[CHOOSE n \in 1..Len(f.new_ex_map) :
                          f.exercises[n] = exercise_id]
    ELSE 0

\* The request fails with an unhandled exception (500): what it committed
\* stays, the rest of it is not done.
fork_fails ==
    /\ fork' = NoFork
    /\ UNCHANGED <<backend, api_vars, db, next_session_id, next_set_log_id,
                   programs, exercises, template_exercises, next_id,
                   in_flight, friend_vars>>

\* One turn of "for ex in exercises": the copy of one exercise and its
\* commit.  The commit before has expired the source exercise, so reading
\* ex.name loads it again, which fails when another request has deleted it.
copy_program_exercise ==
    /\ backend = "api"
    /\ fork.pc = "exercises"
    /\ LET ex_id == fork.exercises[fork.i + 1]
       IN  IF get_exercise(ex_id) = {} THEN fork_fails
           ELSE LET ex == CHOOSE e \in get_exercise(ex_id) : TRUE
                    f == [fork EXCEPT
                             !.i = @ + 1,
                             !.new_ex_map = Append(@, next_id.exercise)]
                IN  /\ exercises' = exercises \cup
                           {[id |-> next_id.exercise,
                             owner_id |-> fork.user,
                             name |-> ex.name]}
                    /\ next_id' = [next_id EXCEPT !.exercise = @ + 1]
                    /\ fork' = [f EXCEPT !.pc = fork_pc(f)]
                    /\ UNCHANGED <<backend, api_vars, db, next_session_id,
                                   next_set_log_id, programs,
                                   template_exercises, in_flight, friend_vars>>

\* The end of one turn of "for tpl in templates": new_templates.append.
close_template(f) ==
    LET g == [f EXCEPT
                 !.j = @ + 1,
                 !.k = 0,
                 !.new_rows = <<>>,
                 !.new_templates =
                     Append(@, [template |-> f.new_tpl,
                                exercises |-> f.new_rows])]
    IN  [g EXCEPT !.pc = fork_pc(g)]

\* The start of one turn of "for tpl in templates": the new template and its
\* commit.  Reading tpl.name and new_program.id loads the expired source
\* template and new program again, which fails when either has been deleted.
copy_program_template ==
    /\ backend = "api"
    /\ fork.pc = "templates"
    /\ LET tpl_id == fork.templates[fork.j + 1]
       IN  IF get_template(tpl_id) = {} \/ get_program(fork.new_program) = {}
           THEN fork_fails
           ELSE LET f == [fork EXCEPT !.new_tpl = next_id.template]
                IN  /\ templates' = templates \cup
                           {[id |-> next_id.template,
                             owner_id |-> fork.user,
                             program_id |-> fork.new_program]}
                    /\ next_id' = [next_id EXCEPT !.template = @ + 1]
                    /\ fork' = IF fork.rows_by_tpl[tpl_id] = <<>>
                               THEN close_template(f)
                               ELSE [f EXCEPT !.pc = "rows"]
                    /\ UNCHANGED <<backend, sessions, set_logs,
                                   personal_bests, db, next_session_id,
                                   next_set_log_id, programs, exercises,
                                   template_exercises, in_flight, friend_vars>>

\* One turn of "for row in rows_by_tpl.get(tpl.id, [])": a row whose
\* exercise has no copy is passed over, any other row is copied and
\* committed.  Reading row.exercise_id loads the expired source row again,
\* which fails when the row has been deleted (in this model a source row goes
\* only together with its template).
copy_program_row ==
    /\ backend = "api"
    /\ fork.pc = "rows"
    /\ LET rows == fork.rows_by_tpl[fork.templates[fork.j + 1]]
           row_id == rows[fork.k + 1]
       IN  IF get_row(row_id) = {} THEN fork_fails
           ELSE LET row == CHOOSE r \in get_row(row_id) : TRUE
                    mapped == mapped_ex_id(fork, row.exercise_id)
                    f == [fork EXCEPT
                             !.k = @ + 1,
                             !.new_rows =
                                 IF mapped = 0 THEN @
                                 ELSE Append(@, next_id.template_exercise)]
                IN  /\ IF mapped = 0
                       THEN UNCHANGED <<template_exercises, next_id>>
                       ELSE /\ template_exercises' = template_exercises \cup
                                   {[id |-> next_id.template_exercise,
                                     template_id |-> fork.new_tpl,
                                     exercise_id |-> mapped,
                                     planned_sets |-> row.planned_sets]}
                            /\ next_id' = [next_id EXCEPT
                                              !.template_exercise = @ + 1]
                    /\ fork' = IF f.k = Len(rows) THEN close_template(f)
                               ELSE f
                    /\ UNCHANGED <<backend, api_vars, db, next_session_id,
                                   next_set_log_id, programs, exercises,
                                   in_flight, friend_vars>>

\* The last db.commit() of copy_program_from_public and its return.
copy_program_return ==
    /\ backend = "api"
    /\ fork.pc = "commit"
    /\ fork' = NoFork
    /\ UNCHANGED <<backend, api_vars, db, next_session_id, next_set_log_id,
                   programs, exercises, template_exercises, next_id,
                   in_flight, friend_vars>>


\* ------------------------------------------------------ API: friends
\* The registered users of the friends endpoints; a to_username outside
\* them is not found.
FriendUsers == 1..3

\* A key that keeps the order of its arguments.
friendship_key_directed(a, b) == <<a, b>>

\* main.py friendship_key
friendship_key(a, b) == IF a < b THEN <<a, b>> ELSE <<b, a>>

\* main.py friendship_exists
friendship_exists(a, b) ==
    \E f \in friendships :
        f.user_id = friendship_key(a, b)[1]
            /\ f.friend_id = friendship_key(a, b)[2]

\* A select that leaves out the test of the status.
pending_between_any_status(a, b) ==
    {fr \in friend_requests :
         \/ (fr.from_user_id = a /\ fr.to_user_id = b)
         \/ (fr.from_user_id = b /\ fr.to_user_id = a)}

\* The pending requests send_friend_request selects: those between the two
\* users, in either direction.
pending_between(a, b) ==
    {fr \in friend_requests :
         /\ fr.status = "pending"
         /\ \/ (fr.from_user_id = a /\ fr.to_user_id = b)
            \/ (fr.from_user_id = b /\ fr.to_user_id = a)}

\* A status that looks for a pending request in the caller's direction only.
send_friend_request_status_one_way(user, to_user) ==
    IF to_user \notin FriendUsers THEN 404
    ELSE IF to_user = user THEN 400
    ELSE IF friendship_exists(user, to_user) THEN 400
    ELSE IF \E fr \in pending_between(user, to_user) : fr.from_user_id = user
    THEN 400
    ELSE 200

\* A status without the test of an existing friendship.
send_friend_request_status_no_friend_check(user, to_user) ==
    IF to_user \notin FriendUsers THEN 404
    ELSE IF to_user = user THEN 400
    ELSE IF \E fr \in friend_requests :
                /\ fr.status = "pending"
                /\ \/ (fr.from_user_id = user /\ fr.to_user_id = to_user)
                   \/ (fr.from_user_id = to_user /\ fr.to_user_id = user)
    THEN 400
    ELSE 200

\* A status without the test of a request to oneself.
send_friend_request_status_no_self_check(user, to_user) ==
    IF to_user \notin FriendUsers THEN 404
    ELSE IF \E f \in friendships :
                {f.user_id, f.friend_id} = {user, to_user}
    THEN 400
    ELSE IF \E fr \in friend_requests :
                /\ fr.status = "pending"
                /\ \/ (fr.from_user_id = user /\ fr.to_user_id = to_user)
                   \/ (fr.from_user_id = to_user /\ fr.to_user_id = user)
    THEN 400
    ELSE 200

\* The HTTP status of send_friend_request: 404 for an unknown recipient, 400
\* for a request to oneself, to a friend, or while a request between the two
\* is pending.
send_friend_request_status(user, to_user) ==
    IF to_user \notin FriendUsers THEN 404
    ELSE IF to_user = user THEN 400
    ELSE IF friendship_exists(user, to_user) THEN 400
    ELSE IF pending_between(user, to_user) # {} THEN 400
    ELSE 200

\* main.py send_friend_request
send_friend_request(user, to_user) ==
    /\ backend = "api"
    /\ next_id.friend_request <= MaxRequests
    /\ IF send_friend_request_status(user, to_user) # 200 THEN UNCHANGED vars
       ELSE /\ friend_requests' = friend_requests \cup
                   {[id |-> next_id.friend_request,
                     from_user_id |-> user,
                     to_user_id |-> to_user,
                     status |-> "pending"]}
            /\ next_id' = [next_id EXCEPT !.friend_request = @ + 1]
            /\ UNCHANGED <<backend, api_vars, db, next_session_id,
                           next_set_log_id, programs, exercises,
                           template_exercises, fork, in_flight, friendships>>

get_friend_request(request_id) ==
    {fr \in friend_requests : fr.id = request_id}

\* A status without the test of the request's status.
respond_status_no_pending_check(user, request_id) ==
    IF \A fr \in friend_requests : fr.id # request_id THEN 404
    ELSE IF \E fr \in friend_requests :
                fr.id = request_id /\ fr.to_user_id # user
    THEN 403
    ELSE 200

\* A status that lets the sender of the request respond as well.
respond_status_either_party(user, request_id) ==
    IF \A fr \in friend_requests : fr.id # request_id THEN 404
    ELSE IF \E fr \in friend_requests :
                /\ fr.id = request_id
                /\ fr.to_user_id # user
                /\ fr.from_user_id # user
    THEN 403
    ELSE IF \E fr \in friend_requests :
                fr.id = request_id /\ fr.status # "pending"
    THEN 400
    ELSE 200

\* The HTTP status of accept_friend_request and reject_friend_request: 404
\* without the request, 403 for anyone but its recipient, 400 once handled.
respond_status(user, request_id) ==
    IF get_friend_request(request_id) = {} THEN 404
    ELSE IF \E fr \in get_friend_request(request_id) : fr.to_user_id # user
    THEN 403
    ELSE IF \E fr \in get_friend_request(request_id) : fr.status # "pending"
    THEN 400
    ELSE 200

\* An ensure_friendship that adds no row.
ensure_friendship_adds_nothing(a, b) == friendships

\* main.py ensure_friendship (the two users differ: a request to oneself is
\* never stored)
ensure_friendship(a, b) ==
    IF friendship_exists(a, b) THEN friendships
    ELSE friendships \cup {[user_id |-> friendship_key(a, b)[1],
                            friend_id |-> friendship_key(a, b)[2]]}

\* main.py accept_friend_request
accept_friend_request(user, request_id) ==
    /\ backend = "api"
    /\ IF respond_status(user, request_id) # 200 THEN UNCHANGED vars
       ELSE LET fr == CHOOSE x \in get_friend_request(request_id) : TRUE
            IN  /\ friend_requests' = (friend_requests \ {fr}) \cup
                       {[fr EXCEPT !.status = "accepted"]}
                /\ friendships' =
                       ensure_friendship(fr.from_user_id, fr.to_user_id)
                /\ UNCHANGED <<backend, api_vars, db, next_session_id,
                               next_set_log_id, programs, exercises,
                               template_exercises, next_id, fork, in_flight>>

\* main.py reject_friend_request
reject_friend_request(user, request_id) ==
    /\ backend = "api"
    /\ IF respond_status(user, request_id) # 200 THEN UNCHANGED vars
       ELSE LET fr == CHOOSE x \in get_friend_request(request_id) : TRUE
            IN  /\ friend_requests' = (friend_requests \ {fr}) \cup
                       {[fr EXCEPT !.status = "rejected"]}
                /\ UNCHANGED <<backend, api_vars, db, next_session_id,
                               next_set_log_id, programs, exercises,
                               template_exercises, next_id, fork, in_flight,
                               friendships>>

\* A list of friends made of the rows with the caller as user_id only.
list_friends_one_side(user) ==
    {link.friend_id : link \in {f \in friendships : f.user_id = user}}
        \cap FriendUsers

\* main.py list_friends: the other end of every Friendship row with the
\* caller at either end, for the ends that are users.  The ids of the list,
\* as a set: the select has no order, and the unique constraint of
\* Friendship leaves no row twice.
list_friends(user) ==
    {IF link.user_id = user THEN link.friend_id ELSE link.user_id :
         link \in {f \in friendships :
                       f.user_id = user \/ f.friend_id = user}}
        \cap FriendUsers

\* ------------------------------------------------------ file backend
\* server.py find_item and app.py require_id: the first item with the id, as
\* its position in the list; 0 when there is none.
find_item(items, item_id) ==
    IF \E i \in DOMAIN items : items[i].id = item_id
    THEN CHOOSE i \in DOMAIN items :
             /\ items[i].id = item_id
             /\ \A j \in DOMAIN items : items[j].id = item_id => i <= j
    ELSE 0

\* Mutant of file_pb_match: only the first test of the search loop, so that
\* the rep count belongs to the key of every kind.
file_pb_match_by_reps(pb, exercise_id, kind, reps) ==
    pb.exercise_id = exercise_id /\ pb.kind = kind /\ pb.reps = reps

\* The two tests of the search loop of app.py update_pb_entry: same
\* exercise, kind and rep count, or same exercise and kind for every kind
\* but max_weight_reps.
file_pb_match(pb, exercise_id, kind, reps) ==
    \/ (pb.exercise_id = exercise_id /\ pb.kind = kind /\ pb.reps = reps)
    \/ (pb.exercise_id = exercise_id /\ pb.kind = kind /\ kind # "max_weight_reps")

\* Mutant of update_pb_entry: a candidate that ties with the stored value
\* replaces the record (value < stored keeps it, value = stored does not).
update_pb_entry_tie_replaces(pbs, exercise_id, kind, label, value, reps, date, set_log_id) ==
    LET found == {i \in DOMAIN pbs : file_pb_match(pbs[i], exercise_id, kind, reps)}
    IN  IF found # {}
        THEN LET existing == CHOOSE i \in found : \A j \in found : i <= j
             IN  IF value < pbs[existing].value
                 THEN pbs
                 ELSE [pbs EXCEPT ![existing] =
                          [@ EXCEPT !.value = value,
                                    !.reps = reps,
                                    !.date = date,
                                    !.set_log_id = set_log_id,
                                    !.label = label]]
        ELSE Append(pbs, [id |-> Len(pbs) + 1,
                          exercise_id |-> exercise_id,
                          kind |-> kind,
                          label |-> label,
                          value |-> value,
                          reps |-> reps,
                          date |-> date,
                          set_log_id |-> set_log_id])

\* app.py update_pb_entry on db["personal_bests"]
update_pb_entry(pbs, exercise_id, kind, label, value, reps, date, set_log_id) ==
    LET found == {i \in DOMAIN pbs : file_pb_match(pbs[i], exercise_id, kind, reps)}
    IN  IF found # {}
        THEN LET existing == CHOOSE i \in found : \A j \in found : i <= j
             IN  IF value <= pbs[existing].value
                 THEN pbs
                 ELSE [pbs EXCEPT ![existing] =
                          [@ EXCEPT !.value = value,
                                    !.reps = reps,
                                    !.date = date,
                                    !.set_log_id = set_log_id,
                                    !.label = label]]
        ELSE Append(pbs, [id |-> Len(pbs) + 1,
                          exercise_id |-> exercise_id,
                          kind |-> kind,
                          label |-> label,
                          value |-> value,
                          reps |-> reps,
                          date |-> date,
                          set_log_id |-> set_log_id])

\* The body of the loop of app.py update_personal_bests: est_1rm, then
\* max_weight_reps, then max_volume of one set log.
file_merge_set_log(pbs, date, set_log) ==
    LET es == entries(set_log)
        p1 == update_pb_entry(pbs, set_log.exercise_id, es[1].kind, es[1].label,
                              es[1].value, set_log.reps, date, set_log.id)
        p2 == update_pb_entry(p1, set_log.exercise_id, es[2].kind, es[2].label,
                              es[2].value, set_log.reps, date, set_log.id)
    IN  update_pb_entry(p2, set_log.exercise_id, es[3].kind, es[3].label,
                        es[3].value, set_log.reps, date, set_log.id)

\* app.py update_personal_bests: session["set_logs"] in list order.
RECURSIVE file_update_personal_bests(_, _, _)
file_update_personal_bests(pbs, date, logs) ==
    IF logs = << >> THEN pbs
    ELSE file_update_personal_bests(file_merge_set_log(pbs, date, Head(logs)),
                                    date, Tail(logs))

\* A handler or command that ends before save_db leaves the file as it was.
new_file_session(template_id, date) ==
    LET tpl == db.workout_templates[find_item(db.workout_templates, template_id)]
    IN  [id |-> next_session_id,
         template_id |-> tpl.id,
         program_id |-> tpl.program_id,
         date |-> date,
         set_logs |-> << >>,
         status |-> "in_progress"]

new_file_set_log(log) ==
    [id |-> next_set_log_id,
     exercise_id |-> log.exercise_id,
     weight |-> log.weight,
     reps |-> log.reps]

\* The HTTP status of the server's session handlers: 404 when find_item
\* finds nothing.  No handler reads the session's status.
srv_start_session_status(template_id) ==
    IF find_item(db.workout_templates, template_id) = 0 THEN 404 ELSE 201
srv_log_set_status(session_id) ==
    IF find_item(db.sessions, session_id) = 0 THEN 404 ELSE 201
srv_finish_session_status(session_id) ==
    IF find_item(db.sessions, session_id) = 0 THEN 404 ELSE 200
srv_cancel_session_status(session_id) ==
    IF find_item(db.sessions, session_id) = 0 THEN 404 ELSE 200

\* server.py handle_api_post, /api/sessions/start
srv_start_session(template_id, date) ==
    /\ backend = "file"
    /\ rows_inserted < MaxRows
    /\ IF srv_start_session_status(template_id) # 201 THEN UNCHANGED vars
       ELSE /\ db' = [db EXCEPT !.sessions =
                         Append(@, new_file_session(template_id, date))]
            /\ next_session_id' = next_session_id + 1
            /\ UNCHANGED <<backend, more_vars, api_vars, next_set_log_id>>

\* server.py handle_api_post, /api/sessions/<id>/log-set
srv_log_set(session_id, log) ==
    /\ backend = "file"
    /\ rows_inserted < MaxRows
    /\ IF srv_log_set_status(session_id) # 201 THEN UNCHANGED vars
       ELSE LET i == find_item(db.sessions, session_id)
            IN  /\ db' = [db EXCEPT !.sessions[i].set_logs =
                             Append(@, new_file_set_log(log))]
                /\ next_set_log_id' = next_set_log_id + 1
                /\ UNCHANGED <<backend, more_vars, api_vars, next_session_id>>

\* server.py handle_api_post, /api/sessions/<id>/finish
srv_finish_session(session_id) ==
    /\ backend = "file"
    /\ IF srv_finish_session_status(session_id) # 200 THEN UNCHANGED vars
       ELSE LET i == find_item(db.sessions, session_id)
                session == db.sessions[i]
            IN  /\ db' = [db EXCEPT
                             !.sessions[i].status = "done",
                             !.personal_bests =
                                 file_update_personal_bests(@, session.date,
                                                            session.set_logs)]
                /\ UNCHANGED <<backend, more_vars, api_vars, next_session_id, next_set_log_id>>

\* server.py handle_api_post, /api/sessions/delete
srv_delete_session(session_id) ==
    /\ backend = "file"
    /\ db' = [db EXCEPT !.sessions =
                 SelectSeq(@, LAMBDA s : s.id # session_id)]
    /\ UNCHANGED <<backend, more_vars, api_vars, next_session_id, next_set_log_id>>

\* server.py handle_api_post, /api/sessions/<id>/cancel
srv_cancel_session(session_id) ==
    /\ backend = "file"
    /\ IF srv_cancel_session_status(session_id) # 200 THEN UNCHANGED vars
       ELSE LET i == find_item(db.sessions, session_id)
            IN  /\ db' = [db EXCEPT !.sessions[i].status = "cancelled"]
                /\ UNCHANGED <<backend, more_vars, api_vars, next_session_id, next_set_log_id>>

\* server.py handle_api_post, /api/sessions/clear-active
srv_clear_active ==
    /\ backend = "file"
    /\ db' = [db EXCEPT !.sessions =
                 [i \in DOMAIN @ |->
                     IF @[i].status = "in_progress"
                     THEN [@[i] EXCEPT !.status = "cancelled"]
                     ELSE @[i]]]
    /\ UNCHANGED <<backend, more_vars, api_vars, next_session_id, next_set_log_id>>

\* How the CLI commands end: "exit" is require_id's SystemExit.
cli_start_session_outcome(template_id) ==
    IF find_item(db.workout_templates, template_id) = 0 THEN "exit"
    ELSE IF find_item(db.programs,
                      db.workout_templates[
                          find_item(db.workout_templates, template_id)].program_id) = 0
    THEN "exit"
    ELSE "started"

cli_log_set_outcome(session_id, exercise_id) ==
    IF find_item(db.sessions, session_id) = 0 THEN "exit"
    ELSE IF find_item(db.exercises, exercise_id) = 0 THEN "exit"
    ELSE "logged"

cli_finish_session_outcome(session_id) ==
    IF find_item(db.sessions, session_id) = 0 THEN "exit"
    ELSE IF db.sessions[find_item(db.sessions, session_id)].status = "done"
    THEN "already finished"
    ELSE "finished"

\* app.py start_session
cli_start_session(template_id, date) ==
    /\ backend = "file"
    /\ rows_inserted < MaxRows
    /\ IF cli_start_session_outcome(template_id) # "started" THEN UNCHANGED vars
       ELSE /\ db' = [db EXCEPT !.sessions =
                         Append(@, new_file_session(template_id, date))]
            /\ next_session_id' = next_session_id + 1
            /\ UNCHANGED <<backend, more_vars, api_vars, next_set_log_id>>

\* app.py log_set
cli_log_set(session_id, log) ==
    /\ backend = "file"
    /\ rows_inserted < MaxRows
    /\ IF cli_log_set_outcome(session_id, log.exercise_id) # "logged"
       THEN UNCHANGED vars
       ELSE LET i == find_item(db.sessions, session_id)
            IN  /\ db' = [db EXCEPT !.sessions[i].set_logs =
                             Append(@, new_file_set_log(log))]
                /\ next_set_log_id' = next_set_log_id + 1
                /\ UNCHANGED <<backend, more_vars, api_vars, next_session_id>>

\* app.py finish_session
cli_finish_session(session_id) ==
    /\ backend = "file"
    /\ IF cli_finish_session_outcome(session_id) # "finished" THEN UNCHANGED vars
       ELSE LET i == find_item(db.sessions, session_id)
                session == db.sessions[i]
            IN  /\ db' = [db EXCEPT
                             !.sessions[i].status = "done",
                             !.personal_bests =
                                 file_update_personal_bests(@, session.date,
                                                            session.set_logs)]
                /\ UNCHANGED <<backend, more_vars, api_vars, next_session_id, next_set_log_id>>

\* ------------------------------------------------ CLI: copy_program
\* A copy of a template whose rows keep the ids of the source rows.
new_tpl_keeps_row_ids(tpl, new_program_id, tpl_id, row_id) ==
    [tpl EXCEPT !.id = tpl_id, !.program_id = new_program_id]

\* A new_tpl that leaves the copy under the source program.
new_tpl_keeps_program(tpl, new_program_id, tpl_id, row_id) ==
    [tpl EXCEPT
        !.id = tpl_id,
        !.exercises = [m \in DOMAIN @ |-> [@[m] EXCEPT !.id = row_id + m - 1]]]

\* app.py copy_program, new_tpl: the copy of one template, its rows copied
\* with the ids row_id, row_id + 1, ...
new_tpl(tpl, new_program_id, tpl_id, row_id) ==
    [tpl EXCEPT
        !.id = tpl_id,
        !.program_id = new_program_id,
        !.exercises = [m \in DOMAIN @ |-> [@[m] EXCEPT !.id = row_id + m - 1]]]

\* app.py copy_program, "for tpl in db['workout_templates']", from position n
\* on: the loop runs over the list it appends to.  tpl_id and row_id are the
\* next ids gen_id() gives out (one per new template, one per new row).
RECURSIVE copy_templates(_, _, _, _, _, _)
copy_templates(tpls, n, program_id, new_program_id, tpl_id, row_id) ==
    IF n > Len(tpls) THEN tpls
    ELSE IF tpls[n].program_id # program_id
    THEN copy_templates(tpls, n + 1, program_id, new_program_id,
                        tpl_id, row_id)
    ELSE copy_templates(
             Append(tpls, new_tpl(tpls[n], new_program_id, tpl_id, row_id)),
             n + 1, program_id, new_program_id, tpl_id + 1,
             row_id + Len(tpls[n].exercises))

\* The rows of a list of templates, counted.
RECURSIVE count_rows(_)
count_rows(tpls) ==
    IF tpls = <<>> THEN 0
    ELSE Len(tpls[1].exercises) + count_rows(Tail(tpls))

\* The outcome of the copy command: require_id ends it when there is no
\* such program.
cli_copy_program_outcome(program_id) ==
    IF find_item(db.programs, program_id) = 0 THEN "not found" ELSE "copied"

\* app.py copy_program.  args.name is a list of words, empty when --name is
\* absent or empty ("args.name or ..."); one save_db at the end.
cli_copy_program(args) ==
    /\ backend = "file"
    /\ next_id.program <= MaxPrograms
    /\ IF cli_copy_program_outcome(args.program_id) # "copied"
       THEN UNCHANGED vars
       ELSE LET program == db.programs[find_item(db.programs, args.program_id)]
                new_program_item ==
                    [program EXCEPT
                        !.id = next_id.program,
                        !.name = IF args.name # <<>> THEN args.name
                                 ELSE program.name \o <<"(copy)">>,
                        !.version = args.version,
                        !.status = "active",
                        !.start_date = args.start_date,
                        !.end_date = args.end_date]
                tpls == copy_templates(db.workout_templates, 1, program.id,
                                       new_program_item.id, next_id.template,
                                       next_id.template_exercise)
                added == SubSeq(tpls, Len(db.workout_templates) + 1, Len(tpls))
            IN  /\ db' = [db EXCEPT !.programs = Append(@, new_program_item),
                                    !.workout_templates = tpls]
                /\ next_id' = [next_id EXCEPT
                                  !.program = @ + 1,
                                  !.template = @ + Len(added),
                                  !.template_exercise = @ + count_rows(added)]
                /\ UNCHANGED <<backend, api_vars, next_session_id,
                               next_set_log_id, programs, exercises,
                               template_exercises, fork, in_flight, friend_vars>>

\* ---------------------------------- file server: programs and templates
\* server.py handle_api_post, /api/programs/delete: the program and the
\* templates with its program_id (their rows are inside them).  The sessions
\* are not touched, and an unknown id is answered with 200 as well.
srv_delete_program(pr_id) ==
    /\ backend = "file"
    /\ db' = [db EXCEPT
                 !.programs = SelectSeq(@, LAMBDA p : p.id # pr_id),
                 !.workout_templates =
                     SelectSeq(@, LAMBDA tpl : tpl.program_id # pr_id)]
    /\ UNCHANGED <<backend, more_vars, api_vars, next_session_id, next_set_log_id>>

\* server.py handle_api_post, /api/templates/delete
srv_delete_template(tpl_id) ==
    /\ backend = "file"
    /\ db' = [db EXCEPT !.workout_templates =
                 SelectSeq(@, LAMBDA tpl : tpl.id # tpl_id)]
    /\ UNCHANGED <<backend, more_vars, api_vars, next_session_id, next_set_log_id>>

\* The HTTP status of /api/templates/<id>/remove-exercise: 404 without the
\* template, 404 when the template has no row with the id.
srv_remove_exercise_status(tpl_id, row_id) ==
    IF find_item(db.workout_templates, tpl_id) = 0 THEN 404
    ELSE IF find_item(db.workout_templates[
                          find_item(db.workout_templates, tpl_id)].exercises,
                      row_id) = 0
    THEN 404
    ELSE 200

\* server.py handle_api_post, /api/templates/<id>/remove-exercise: the row,
\* and the set logs of the row's exercise in the sessions of this template.
srv_remove_exercise(tpl_id, row_id) ==
    /\ backend = "file"
    /\ IF srv_remove_exercise_status(tpl_id, row_id) # 200 THEN UNCHANGED vars
       ELSE LET i == find_item(db.workout_templates, tpl_id)
                tpl == db.workout_templates[i]
                row == tpl.exercises[find_item(tpl.exercises, row_id)]
            IN  /\ db' = [db EXCEPT
                             !.workout_templates[i].exercises =
                                 SelectSeq(@, LAMBDA r : r.id # row_id),
                             !.sessions =
                                 [n \in DOMAIN @ |->
                                     IF @[n].template_id = tpl_id
                                     THEN [@[n] EXCEPT !.set_logs =
                                              SelectSeq(@, LAMBDA s :
                                                  s.exercise_id # row.exercise_id)]
                                     ELSE @[n]]]
                /\ UNCHANGED <<backend, more_vars, api_vars,
                               next_session_id, next_set_log_id>>

\* ------------------------------------------------------ specification
\* The API's tables after users 1 and 2 have each created one program with
\* one workout template (create_program, create_template).
InitTemplates ==
    { [id |-> 1, owner_id |-> 1, program_id |-> 1],
      [id |-> 2, owner_id |-> 2, program_id |-> 2] }

\* data/db.json after exercises 1 and 2, one program and one workout template
\* have been added (add_exercise, add_program, add_template).
InitDb ==
    [ exercises |-> << [id |-> 1], [id |-> 2] >>,
      programs |-> << [id |-> 1] >>,
      workout_templates |-> << [id |-> 1, program_id |-> 1] >>,
      sessions |-> << >>,
      personal_bests |-> << >> ]

\* The API's programs of InitTemplates and the exercises the set logs name
\* (create_program, create_exercise); no template has a row yet.
InitPrograms ==
    { [id |-> 1, owner_id |-> 1, status |-> "active", version |-> 1,
       visibility |-> "private", is_public |-> FALSE],
      [id |-> 2, owner_id |-> 2, status |-> "active", version |-> 1,
       visibility |-> "private", is_public |-> FALSE] }

InitExercises ==
    { [id |-> 1, owner_id |-> 1, name |-> "bench"],
      [id |-> 2, owner_id |-> 1, name |-> "squat"] }

\* The next id of each table (of each list of db.json) after these inserts.
InitNextId ==
    [program |-> 3, exercise |-> 3, template |-> 3, template_exercise |-> 1,
     friend_request |-> 1]

Init ==
    /\ backend \in Backends
    /\ programs = InitPrograms
    /\ exercises = InitExercises
    /\ template_exercises = {}
    /\ next_id = InitNextId
    /\ fork = NoFork
    /\ in_flight = NoRequests
    /\ friend_requests = {}
    /\ friendships = {}
    /\ templates = InitTemplates
    /\ sessions = {}
    /\ set_logs = {}
    /\ personal_bests = {}
    /\ db = InitDb
    /\ next_session_id = 1
    /\ next_set_log_id = 1

TemplateIds == {t.id : t \in InitTemplates}

Next ==
    \/ \E u \in Users, t \in TemplateIds : start_session(u, t, today)
    \/ \E u \in Users, s \in SessionIds, l \in SetInputs : log_set(u, s, l)
    \/ \E u \in Users, s \in SessionIds : finish_session(u, s)
    \/ \E u \in Users, s \in SessionIds : cancel_session(u, s)
    \/ \E u \in Users, s \in SessionIds : delete_session(u, s)
    \/ \E u \in Users : clear_active_sessions(u)
    \/ \E t \in TemplateIds : srv_start_session(t, today)
    \/ \E s \in SessionIds, l \in SetInputs : srv_log_set(s, l)
    \/ \E s \in SessionIds : srv_finish_session(s)
    \/ \E s \in SessionIds : srv_delete_session(s)
    \/ \E s \in SessionIds : srv_cancel_session(s)
    \/ srv_clear_active
    \/ \E t \in TemplateIds : cli_start_session(t, today)
    \/ \E s \in SessionIds, l \in SetInputs : cli_log_set(s, l)
    \/ \E s \in SessionIds : cli_finish_session(s)

Spec == Init /\ [][Next]_vars

\* ------------------------------------------------------ shared by the claims
Max(S) == CHOOSE x \in S : \A y \in S : x >= y

\* The rows of db["personal_bests"] and the sessions of db["sessions"].
file_pbs == {db.personal_bests[i] : i \in DOMAIN db.personal_bests}
file_sessions == {db.sessions[i] : i \in DOMAIN db.sessions}
file_logs(session) == {session.set_logs[i] : i \in DOMAIN session.set_logs}

\* The candidate of a set log for a kind (entries is in the order of Kinds).
candidate(set_log, kind) ==
    CHOOSE e \in {entries(set_log)[k] : k \in 1..3} : e.kind = kind

\* The key the specification gives a PersonalBest: the rep count belongs to
\* it for max_weight_reps only.
key_reps(kind, reps) == IF kind = "max_weight_reps" THEN reps ELSE 0

\* ------------------------------------------------------------------- C1
\* C1: the value stored in a PersonalBest row never decreases.  Every step
\* keeps every row, with its owner, exercise and kind (and its rep count for
\* max_weight_reps), and leaves its value greater than or equal to what it was.
C1_api_step ==
    \A pb \in personal_bests : \E q \in personal_bests' :
        /\ q.id = pb.id
        /\ q.owner_id = pb.owner_id
        /\ q.exercise_id = pb.exercise_id
        /\ q.kind = pb.kind
        /\ key_reps(q.kind, q.reps) = key_reps(pb.kind, pb.reps)
        /\ q.value >= pb.value

C1_file_step ==
    \A i \in DOMAIN db.personal_bests :
        /\ i \in DOMAIN db'.personal_bests
        /\ db'.personal_bests[i].id = db.personal_bests[i].id
        /\ db'.personal_bests[i].exercise_id = db.personal_bests[i].exercise_id
        /\ db'.personal_bests[i].kind = db.personal_bests[i].kind
        /\ key_reps(db'.personal_bests[i].kind, db'.personal_bests[i].reps)
               = key_reps(db.personal_bests[i].kind, db.personal_bests[i].reps)
        /\ db'.personal_bests[i].value >= db.personal_bests[i].value

C1_ValueNeverDecreases == [][C1_api_step /\ C1_file_step]_vars

\* Witness: a finish merged a set log whose candidate is smaller than the
\* stored value, and the row kept the greater value of another set log.
C1_Witness ==
    \E pb \in personal_bests, l \in set_logs, s \in sessions :
        /\ s.id = l.session_id /\ s.status = "done" /\ s.owner_id = pb.owner_id
        /\ pb.kind = "est_1rm" /\ l.exercise_id = pb.exercise_id
        /\ l.id > pb.set_log_id
        /\ candidate(l, "est_1rm").value < pb.value

\* ------------------------------------------------------ finish steps
\* The key the specification gives a row or a set log for a kind: exercise,
\* kind, and the rep count for max_weight_reps (the owner is added by the API).
same_key(kind, a, b) ==
    /\ a.exercise_id = b.exercise_id
    /\ key_reps(kind, a.reps) = key_reps(kind, b.reps)

\* What a finish has to leave under the key of set log l for a kind: before
\* are the rows stored under the key, logs the set logs of the session, after
\* the rows stored under the key afterwards.
stores_maximum(kind, l, before, logs, after) ==
    LET old == {p.value : p \in {p \in before : p.kind = kind /\ same_key(kind, p, l)}}
        new == {candidate(m, kind).value : m \in {m \in logs : same_key(kind, m, l)}}
        now == {q \in after : q.kind = kind /\ same_key(kind, q, l)}
    IN  /\ now # {}
        /\ \A q \in now : q.value = Max(old \cup new)

\* What every step that finishes a session in the API and changes something
\* has in common, whoever finishes whichever session: no row is inserted or
\* deleted in Session and SetLog, and a status or a PersonalBest row changes.
api_finish_like ==
    /\ backend = "api"
    /\ next_set_log_id' = next_set_log_id
    /\ next_session_id' = next_session_id
    /\ set_logs' = set_logs
    /\ (sessions' # sessions \/ personal_bests' # personal_bests)

\* A step in which user u finishes session s in the API and something
\* changes.  finish_session is the only handler of main.py that writes the
\* status done or a PersonalBest row, and the rows it writes carry the ids of
\* the finished session's set logs.  So a step is finish_session(u, s) when it
\* leaves the set logs alone, leaves session s done and every other session
\* as it was, and either changes the status of s or writes rows from set logs
\* of s; told apart this way, no merge is computed to recognise the step.
api_finish_step(u, s) ==
    /\ api_finish_like
    /\ finish_session_status(u, s) = 200
    /\ \E sess \in get_session(s) :
           sessions' = (sessions \ {sess}) \cup {[sess EXCEPT !.status = "done"]}
    /\ \/ sessions' # sessions
       \/ /\ personal_bests' # personal_bests
          /\ \A q \in personal_bests' \ personal_bests :
                 \E l \in logs_of(s) : q.set_log_id = l.id

\* The same for the file backend.
file_finish_like ==
    /\ backend = "file"
    /\ next_set_log_id' = next_set_log_id
    /\ next_session_id' = next_session_id
    /\ db' # db

\* A step in which the server or the CLI finishes session s in the file
\* backend and something changes; again the first conjuncts follow from the
\* handlers.
file_finish_step(s) ==
    /\ file_finish_like
    /\ find_item(db.sessions, s) # 0
    /\ db'.sessions =
           [db.sessions EXCEPT ![find_item(db.sessions, s)].status = "done"]
    /\ \/ (srv_finish_session_status(s) = 200 /\ srv_finish_session(s))
       \/ (cli_finish_session_outcome(s) = "finished" /\ cli_finish_session(s))

\* ------------------------------------------------------------------- C2
\* C2: a finish of a session with set logs L1..Ln leaves, under every key
\* touched by some Li, the maximum of the value stored before (if any) and
\* the candidates of all Li for that key, in whatever order the set logs are
\* merged.
C2_api_step ==
    api_finish_like => \A u \in Users, s \in SessionIds :
        api_finish_step(u, s) =>
            \A l \in logs_of(s), kind \in Kinds :
                stores_maximum(kind, l,
                               {p \in personal_bests : p.owner_id = u},
                               logs_of(s),
                               {q \in personal_bests' : q.owner_id = u})

C2_file_step ==
    file_finish_like => \A s \in SessionIds :
        file_finish_step(s) =>
            LET session == db.sessions[find_item(db.sessions, s)]
            IN  \A l \in file_logs(session), kind \in Kinds :
                    stores_maximum(kind, l, file_pbs, file_logs(session),
                                   {db'.personal_bests[i] :
                                        i \in DOMAIN db'.personal_bests})

C2_FinishStoresMaximum == [][C2_api_step /\ C2_file_step]_vars

\* ------------------------------------------------------------------- C5
\* C5: max_volume is keyed by owner, exercise and kind only, so there is at
\* most one max_volume row per owner and exercise (per exercise in the file
\* backend, which has one user).
C5_OneMaxVolumeRow ==
    /\ \A p, q \in personal_bests :
           (/\ p.kind = "max_volume" /\ q.kind = "max_volume"
            /\ p.owner_id = q.owner_id /\ p.exercise_id = q.exercise_id) => p = q
    /\ \A p, q \in file_pbs :
           (/\ p.kind = "max_volume" /\ q.kind = "max_volume"
            /\ p.exercise_id = q.exercise_id) => p = q

\* ------------------------------------------------------------------- C3
\* The five fields a merge writes, as they come from set log l of a session
\* with the given date.
written_by(q, kind, l, date) ==
    /\ q.value = candidate(l, kind).value
    /\ q.label = candidate(l, kind).label
    /\ q.reps = l.reps
    /\ q.set_log_id = l.id
    /\ q.date = date

\* C3: a candidate that equals the stored value changes nothing.  A row
\* changes only to a strictly greater value, and then value, label, reps,
\* set_log_id and date are all those of one set log of a finished session;
\* a row whose key gets no strictly greater candidate from the finished
\* session keeps all of its fields.
C3_api_step ==
    personal_bests' # personal_bests =>
        /\ \A pb \in personal_bests, q \in personal_bests' :
               q.id = pb.id =>
                   \/ q = pb
                   \/ /\ q.value > pb.value
                      /\ \E l \in set_logs, s \in sessions' :
                             /\ s.id = l.session_id /\ s.status = "done"
                             /\ s.owner_id = pb.owner_id
                             /\ same_key(pb.kind, pb, l)
                             /\ written_by(q, pb.kind, l, s.date)
        /\ \A u \in Users, s \in SessionIds :
               api_finish_step(u, s) =>
                   \A pb \in personal_bests :
                       (\A l \in logs_of(s) :
                            (pb.owner_id = u /\ same_key(pb.kind, pb, l)) =>
                                candidate(l, pb.kind).value <= pb.value)
                           => pb \in personal_bests'

C3_file_step ==
    db'.personal_bests # db.personal_bests =>
        /\ \A i \in DOMAIN db.personal_bests :
               LET pb == db.personal_bests[i]
                   q == db'.personal_bests[i]
               IN  \/ q = pb
                   \/ /\ q.value > pb.value
                      /\ \E n \in DOMAIN db'.sessions :
                             \E l \in file_logs(db'.sessions[n]) :
                                 /\ db'.sessions[n].status = "done"
                                 /\ same_key(pb.kind, pb, l)
                                 /\ written_by(q, pb.kind, l, db'.sessions[n].date)
        /\ \A s \in SessionIds :
               file_finish_step(s) =>
                   LET session == db.sessions[find_item(db.sessions, s)]
                   IN  \A i \in DOMAIN db.personal_bests :
                           (\A l \in file_logs(session) :
                                same_key(db.personal_bests[i].kind,
                                         db.personal_bests[i], l) =>
                                    candidate(l, db.personal_bests[i].kind).value
                                        <= db.personal_bests[i].value)
                               => db'.personal_bests[i] = db.personal_bests[i]

C3_TieKeepsExistingRecord == [][C3_api_step /\ C3_file_step]_vars

\* Witness: a finished session of the file backend holds the same set twice
\* and a later set that left a record, so the finish merged the tie; the
\* est_1rm record is still the one written for the first of the two.
C3_Witness ==
    \E session \in file_sessions :
        \E i, j, k \in DOMAIN session.set_logs :
            /\ session.status = "done"
            /\ i < j /\ j < k
            /\ session.set_logs[i].exercise_id = session.set_logs[j].exercise_id
            /\ session.set_logs[i].weight = session.set_logs[j].weight
            /\ session.set_logs[i].reps = session.set_logs[j].reps
            /\ \E pb \in file_pbs :
                   /\ pb.kind = "est_1rm"
                   /\ pb.set_log_id = session.set_logs[i].id
                   /\ pb.value = candidate(session.set_logs[j], "est_1rm").value
            /\ \E pb \in file_pbs : pb.set_log_id = session.set_logs[k].id

\* ------------------------------------------------------------------- C4
\* What a finish of a session with set logs `logs` does to the
\* max_weight_reps rows `before` of one owner, giving `after`: a row whose
\* exercise and rep count no set log has is left as it was, every row keeps
\* its rep count, every set log has a row of its exercise and rep count with a
\* value of at least its weight, and no exercise and rep count has two rows.
mwr_by_rep_count(before, logs, after) ==
    /\ \A pb \in before :
           /\ (\A l \in logs : l.exercise_id = pb.exercise_id => l.reps # pb.reps)
                  => pb \in after
           /\ \E q \in after : q.id = pb.id /\ q.reps = pb.reps
    /\ \A l \in logs : \E q \in after :
           /\ q.exercise_id = l.exercise_id /\ q.reps = l.reps
           /\ q.value >= candidate(l, "max_weight_reps").value
    /\ \A p, q \in after :
           (p.exercise_id = q.exercise_id /\ p.reps = q.reps) => p = q

\* C4: a max_weight_reps candidate with rep count r never modifies a
\* max_weight_reps record of the same owner and exercise with another rep
\* count; a 5-rep set and an 8-rep set of one exercise give two rows.
C4_api_step ==
    api_finish_like => \A u \in Users, s \in SessionIds :
        api_finish_step(u, s) =>
            mwr_by_rep_count(
                {p \in personal_bests :
                     p.owner_id = u /\ p.kind = "max_weight_reps"},
                logs_of(s),
                {q \in personal_bests' :
                     q.owner_id = u /\ q.kind = "max_weight_reps"})

C4_file_step ==
    file_finish_like => \A s \in SessionIds :
        file_finish_step(s) =>
            mwr_by_rep_count(
                {p \in file_pbs : p.kind = "max_weight_reps"},
                file_logs(db.sessions[find_item(db.sessions, s)]),
                {db'.personal_bests[i] : i \in
                     {j \in DOMAIN db'.personal_bests :
                          db'.personal_bests[j].kind = "max_weight_reps"}})

C4_MaxWeightKeyedByReps == [][C4_api_step /\ C4_file_step]_vars

\* Witness: the spec's example in the API.  A 5-rep set of 100 and a later
\* 8-rep set of 90 of one exercise have been finished by one owner, and the
\* owner has a row with reps 5 and value 100 and a row with reps 8 and value 90.
C4_Witness ==
    \E p, q \in personal_bests :
        /\ p.kind = "max_weight_reps" /\ q.kind = "max_weight_reps"
        /\ p.owner_id = q.owner_id /\ p.exercise_id = q.exercise_id
        /\ p.reps = 5 /\ p.value = Scale * 100
        /\ q.reps = 8 /\ q.value = Scale * 90
        /\ q.set_log_id > p.set_log_id

\* ------------------------------------------------------------------- C6
\* No two est_1rm rows among `rows` have the same exercise.
one_est_1rm_row(rows) ==
    \A p, q \in rows :
        (/\ p.kind = "est_1rm" /\ q.kind = "est_1rm"
         /\ p.exercise_id = q.exercise_id) => p = q

\* C6: est_1rm is keyed by owner, exercise and kind only.  A finish leaves at
\* most one est_1rm row per owner and exercise, and that row holds the
\* greatest of the estimate stored before and the estimates of the finished
\* set logs of the exercise, whatever their rep counts are.
C6_api_step ==
    api_finish_like => \A u \in Users, s \in SessionIds :
        api_finish_step(u, s) =>
            /\ one_est_1rm_row({q \in personal_bests' : q.owner_id = u})
            /\ \A l \in logs_of(s) :
                   stores_maximum("est_1rm", l,
                                  {p \in personal_bests : p.owner_id = u},
                                  logs_of(s),
                                  {q \in personal_bests' : q.owner_id = u})

C6_file_step ==
    file_finish_like => \A s \in SessionIds :
        file_finish_step(s) =>
            LET session == db.sessions[find_item(db.sessions, s)]
                after == {db'.personal_bests[i] : i \in DOMAIN db'.personal_bests}
            IN  /\ one_est_1rm_row(after)
                /\ \A l \in file_logs(session) :
                       stores_maximum("est_1rm", l, file_pbs,
                                      file_logs(session), after)

C6_Est1rmKeyedWithoutReps == [][C6_api_step /\ C6_file_step]_vars

\* Witness: a finished session of the file backend holds an 8-rep set and,
\* after it, a 5-rep set of the same exercise with a higher estimate; the
\* exercise has one est_1rm row, and it is the one of the 5-rep set.
C6_Witness ==
    \E session \in file_sessions :
        \E i, j \in DOMAIN session.set_logs :
            /\ session.status = "done"
            /\ i < j
            /\ session.set_logs[i].exercise_id = session.set_logs[j].exercise_id
            /\ session.set_logs[i].reps = 8 /\ session.set_logs[j].reps = 5
            /\ candidate(session.set_logs[j], "est_1rm").value
                   > candidate(session.set_logs[i], "est_1rm").value
            /\ \E pb \in file_pbs :
                   /\ pb.kind = "est_1rm"
                   /\ pb.exercise_id = session.set_logs[j].exercise_id
                   /\ pb.set_log_id = session.set_logs[j].id
                   /\ pb.reps = 5
                   /\ pb.value = candidate(session.set_logs[j], "est_1rm").value

\* ------------------------------------------------------------------- C7
\* C7: a finish of a session that is already done is rejected.  In every
\* state, for every done session, the finish request of its owner gets an
\* error status from the API and from the server, and the CLI command does
\* not finish it again.
C7_RefinishRejected ==
    /\ \A s \in sessions :
           s.status = "done" => finish_session_status(s.owner_id, s.id) # 200
    /\ \A s \in file_sessions :
           s.status = "done" =>
               /\ srv_finish_session_status(s.id) # 200
               /\ cli_finish_session_outcome(s.id) # "finished"

\* ------------------------------------------------------------------- C8
\* C8: a session's status only moves from in_progress to done or to
\* cancelled.  No step changes the status of a session that is done or
\* cancelled.
C8_api_step ==
    \A s \in sessions, n \in sessions' :
        (n.id = s.id /\ s.status \in {"done", "cancelled"}) => n.status = s.status

C8_file_step ==
    \A i \in DOMAIN db.sessions, j \in DOMAIN db'.sessions :
        (/\ db'.sessions[j].id = db.sessions[i].id
         /\ db.sessions[i].status \in {"done", "cancelled"})
            => db'.sessions[j].status = db.sessions[i].status

C8_StatusOneWay == [][C8_api_step /\ C8_file_step]_vars

\* ------------------------------------------------------------------- C9
\* C9: a set log is created only while its session is in_progress.  Every
\* set log that a step adds belongs to a session that was in_progress before
\* the step.
C9_api_step ==
    \A l \in set_logs' \ set_logs :
        \E s \in sessions : s.id = l.session_id /\ s.status = "in_progress"

C9_file_step ==
    \A i \in DOMAIN db.sessions, j \in DOMAIN db'.sessions :
        (/\ db'.sessions[j].id = db.sessions[i].id
         /\ Len(db'.sessions[j].set_logs) > Len(db.sessions[i].set_logs))
            => db.sessions[i].status = "in_progress"

C9_LogSetOnlyInProgress == [][C9_api_step /\ C9_file_step]_vars

\* ------------------------------------------------------------------ C10
\* C10: a cancel leaves the session cancelled, leaves every PersonalBest row
\* as it was and discards the session's set logs: after a successful cancel
\* of a session no set log belongs to it.
C10_api_step ==
    \A u \in Users, s \in SessionIds :
        (cancel_session_status(u, s) = 200 /\ cancel_session(u, s)) =>
            /\ \A n \in sessions' : n.id = s => n.status = "cancelled"
            /\ \A l \in set_logs' : l.session_id # s
            /\ personal_bests' = personal_bests

C10_file_step ==
    \A s \in SessionIds :
        (srv_cancel_session_status(s) = 200 /\ srv_cancel_session(s)) =>
            /\ \A j \in DOMAIN db'.sessions :
                   db'.sessions[j].id = s =>
                       /\ db'.sessions[j].status = "cancelled"
                       /\ db'.sessions[j].set_logs = << >>
            /\ db'.personal_bests = db.personal_bests

C10_CancelDiscardsSetLogs == [][C10_api_step /\ C10_file_step]_vars

\* ------------------------------------------- specification of the cascades
\* The store after user 1 has created exercises 1 and 2, programs 1 and 2,
\* template 1 under program 1 with a row for each exercise and template 2
\* under program 2 with a row for exercise 1, has started session 1 from
\* template 1, logged 100 x 5 of exercise 1 and finished it, and has started
\* session 2 from template 2.  User 2 owns nothing.
CascadePrograms ==
    { [id |-> 1, owner_id |-> 1, status |-> "active", version |-> 1,
       visibility |-> "private", is_public |-> FALSE],
      [id |-> 2, owner_id |-> 1, status |-> "active", version |-> 1,
       visibility |-> "private", is_public |-> FALSE] }

CascadeTemplates ==
    { [id |-> 1, owner_id |-> 1, program_id |-> 1],
      [id |-> 2, owner_id |-> 1, program_id |-> 2] }

CascadeRows ==
    { [id |-> 1, template_id |-> 1, exercise_id |-> 1, planned_sets |-> 3],
      [id |-> 2, template_id |-> 1, exercise_id |-> 2, planned_sets |-> 4],
      [id |-> 3, template_id |-> 2, exercise_id |-> 1, planned_sets |-> 5] }

CascadeSetLog == [id |-> 1, session_id |-> 1, exercise_id |-> 1,
                  weight |-> 100, reps |-> 5]

CascadeSessions ==
    { [id |-> 1, owner_id |-> 1, template_id |-> 1, program_id |-> 1,
       date |-> 1, status |-> "done"],
      [id |-> 2, owner_id |-> 1, template_id |-> 2, program_id |-> 2,
       date |-> 2, status |-> "in_progress"] }

\* The same history in data/db.json.
CascadeDb ==
    [ exercises |-> << [id |-> 1], [id |-> 2] >>,
      programs |-> << [id |-> 1, status |-> "active", version |-> 1],
                      [id |-> 2, status |-> "active", version |-> 1] >>,
      workout_templates |->
          << [id |-> 1, program_id |-> 1, exercises |->
                 << [id |-> 1, exercise_id |-> 1, planned_sets |-> 3],
                    [id |-> 2, exercise_id |-> 2, planned_sets |-> 4] >>],
             [id |-> 2, program_id |-> 2, exercises |->
                 << [id |-> 3, exercise_id |-> 1, planned_sets |-> 5] >>] >>,
      sessions |->
          << [id |-> 1, template_id |-> 1, program_id |-> 1, date |-> 1,
              set_logs |-> << [id |-> 1, exercise_id |-> 1,
                               weight |-> 100, reps |-> 5] >>,
              status |-> "done"],
             [id |-> 2, template_id |-> 2, program_id |-> 2, date |-> 2,
              set_logs |-> << >>, status |-> "in_progress"] >>,
      personal_bests |->
          file_update_personal_bests(<< >>, 1,
              << [id |-> 1, exercise_id |-> 1, weight |-> 100, reps |-> 5] >>) ]

InitCascade ==
    /\ backend \in Backends
    /\ programs = IF backend = "api" THEN CascadePrograms ELSE {}
    /\ exercises = IF backend = "api" THEN InitExercises ELSE {}
    /\ templates = IF backend = "api" THEN CascadeTemplates ELSE {}
    /\ template_exercises = IF backend = "api" THEN CascadeRows ELSE {}
    /\ sessions = IF backend = "api" THEN CascadeSessions ELSE {}
    /\ set_logs = IF backend = "api" THEN {CascadeSetLog} ELSE {}
    /\ personal_bests =
           IF backend = "api"
           THEN update_personal_bests({}, 1,
                    CHOOSE s \in CascadeSessions : s.id = 1, CascadeSetLog)
           ELSE {}
    /\ db = IF backend = "file" THEN CascadeDb ELSE InitDb
    /\ next_session_id = 3
    /\ next_set_log_id = 2
    /\ next_id = [program |-> 3, exercise |-> 3, template |-> 3,
                  template_exercise |-> 4, friend_request |-> 1]
    /\ fork = NoFork
    /\ in_flight = NoRequests
    /\ friend_requests = {}
    /\ friendships = {}

\* The ids a request of the cascade specification may name: those of the
\* fixture and one that was never handed out.
CascadeProgramIds == 1..3
CascadeTemplateIds == 1..3
CascadeRowIds == 1..4
\* publish_pb is asked for the first PersonalBest row and for a row that
\* does not exist.
PbIds == {0, 1}

NextCascade ==
    \/ \E u \in Users, t \in CascadeTemplateIds : start_session(u, t, today)
    \/ \E u \in Users, s \in SessionIds, l \in SetInputs : log_set(u, s, l)
    \/ \E u \in Users, s \in SessionIds : finish_session(u, s)
    \/ \E u \in Users, s \in SessionIds : cancel_session(u, s)
    \/ \E u \in Users, s \in SessionIds : delete_session(u, s)
    \/ \E u \in Users, p \in CascadeProgramIds : delete_program(u, p)
    \/ \E u \in Users, t \in CascadeTemplateIds : delete_template(u, t)
    \/ \E u \in Users, t \in CascadeTemplateIds, r \in CascadeRowIds :
           remove_exercise_from_template(u, t, r)
    \/ \E u \in Users, pb \in PbIds, b \in BOOLEAN : publish_pb(u, pb, b)
    \/ \E t \in CascadeTemplateIds : srv_start_session(t, today)
    \/ \E s \in SessionIds, l \in SetInputs : srv_log_set(s, l)
    \/ \E s \in SessionIds : srv_finish_session(s)
    \/ \E s \in SessionIds : srv_cancel_session(s)
    \/ \E s \in SessionIds : srv_delete_session(s)
    \/ \E p \in CascadeProgramIds : srv_delete_program(p)
    \/ \E t \in CascadeTemplateIds : srv_delete_template(t)
    \/ \E t \in CascadeTemplateIds, r \in CascadeRowIds : srv_remove_exercise(t, r)

SpecCascade == InitCascade /\ [][NextCascade]_vars

\* ------------------------------------------------------------------ C11
\* C11: deleting program P removes exactly P, the templates with program_id
\* P, their rows, the sessions started from P and the set logs of those
\* sessions; everything else, the PersonalBest rows included, stays.
C11_api_step ==
    programs' # programs => \A u \in Users, p \in CascadeProgramIds :
        (delete_program_status(u, p) = 200 /\ delete_program(u, p)) =>
            LET tpls == {tpl \in templates : tpl.program_id = p}
                sess == {s \in sessions : s.program_id = p}
            IN  /\ programs' = programs \ get_program(p)
                /\ templates' = templates \ tpls
                /\ template_exercises' =
                       {r \in template_exercises :
                            \A tpl \in tpls : r.template_id # tpl.id}
                /\ sessions' = sessions \ sess
                /\ set_logs' =
                       {l \in set_logs : \A s \in sess : l.session_id # s.id}
                /\ personal_bests' = personal_bests

C11_file_step ==
    (backend = "file" /\ db'.programs # db.programs) =>
        \A p \in CascadeProgramIds :
            srv_delete_program(p) =>
                /\ db'.programs = SelectSeq(db.programs, LAMBDA x : x.id # p)
                /\ db'.workout_templates =
                       SelectSeq(db.workout_templates,
                                 LAMBDA tpl : tpl.program_id # p)
                /\ db'.sessions =
                       SelectSeq(db.sessions, LAMBDA s : s.program_id # p)
                /\ db'.personal_bests = db.personal_bests

C11_DeleteProgramCascade == [][C11_api_step /\ C11_file_step]_vars

\* ------------------------------------------------------------------ C12
\* A PersonalBest row without its is_public flag.
pb_record(pb) ==
    [id |-> pb.id, owner_id |-> pb.owner_id, exercise_id |-> pb.exercise_id,
     kind |-> pb.kind, label |-> pb.label, value |-> pb.value,
     reps |-> pb.reps, date |-> pb.date, set_log_id |-> pb.set_log_id]

\* C12: only a session finish creates PersonalBest rows or changes their
\* value, reps, date, set_log_id or label; every other operation leaves the
\* set of rows and those fields as they were (publish_pb changes is_public
\* only), so the rows outlive the program that produced them.
C12_api_step ==
    (backend = "api" /\ personal_bests' # personal_bests) =>
        \/ \E u \in Users, s \in SessionIds :
               finish_session_status(u, s) = 200 /\ finish_session(u, s)
        \/ {pb_record(pb) : pb \in personal_bests'} =
               {pb_record(pb) : pb \in personal_bests}

C12_file_step ==
    (backend = "file" /\ db'.personal_bests # db.personal_bests) =>
        \E s \in SessionIds :
            \/ (srv_finish_session_status(s) = 200 /\ srv_finish_session(s))
            \/ (cli_finish_session_outcome(s) = "finished"
                    /\ cli_finish_session(s))

C13_api_step ==
    (backend = "api" /\ template_exercises' # template_exercises) =>
        \A u \in Users, t \in CascadeTemplateIds, r \in CascadeRowIds :
            (/\ remove_exercise_from_template_status(u, t, r) = 200
             /\ remove_exercise_from_template(u, t, r)) =>
                \A row \in get_row(r) :
                    /\ template_exercises' = template_exercises \ {row}
                    /\ set_logs' =
                           {l \in set_logs :
                                ~ /\ l.exercise_id = row.exercise_id
                                  /\ \E s \in sessions :
                                         /\ s.id = l.session_id
                                         /\ s.template_id = t}

C13_file_step ==
    (backend = "file" /\ db'.workout_templates # db.workout_templates) =>
        \A t \in CascadeTemplateIds, r \in CascadeRowIds :
            (srv_remove_exercise_status(t, r) = 200
                 /\ srv_remove_exercise(t, r)) =>
                LET tpl == db.workout_templates[
                               find_item(db.workout_templates, t)]
                    row == tpl.exercises[find_item(tpl.exercises, r)]
                IN  /\ Len(db'.sessions) = Len(db.sessions)
                    /\ \A n \in 1..Len(db.sessions) :
                           db'.sessions[n].set_logs =
                               IF db.sessions[n].template_id = t
                               THEN SelectSeq(db.sessions[n].set_logs,
                                        LAMBDA l :
                                            l.exercise_id # row.exercise_id)
                               ELSE db.sessions[n].set_logs
                    /\ \A i \in 1..Len(db'.workout_templates) :
                           \A j \in 1..Len(db'.workout_templates[i].exercises) :
                               db'.workout_templates[i].exercises[j].id # r

C13_RemoveRowPurgesSetLogs == [][C13_api_step /\ C13_file_step]_vars

\* ------------------------------------------------------------------ C14
\* C14: deleting a template removes the template and exactly its rows,
\* deleting a session removes the session and exactly its set logs, and no
\* other template, row, session, set log, program or PersonalBest changes.
C14_api_step ==
    (backend = "api" /\ (templates' # templates \/ sessions' # sessions)) =>
        /\ \A u \in Users, t \in CascadeTemplateIds :
               (delete_template_status(u, t) = 200 /\ delete_template(u, t)) =>
                   /\ templates' = {tpl \in templates : tpl.id # t}
                   /\ template_exercises' =
                          {r \in template_exercises : r.template_id # t}
                   /\ UNCHANGED <<sessions, set_logs, programs,
                                  personal_bests>>
        /\ \A u \in Users, s \in SessionIds :
               (delete_session_status(u, s) = 200 /\ delete_session(u, s)) =>
                   /\ sessions' = {x \in sessions : x.id # s}
                   /\ set_logs' = {l \in set_logs : l.session_id # s}
                   /\ UNCHANGED <<templates, template_exercises, programs,
                                  personal_bests>>

C14_file_step ==
    (backend = "file" /\ db' # db) =>
        /\ \A t \in CascadeTemplateIds :
               srv_delete_template(t) =>
                   /\ db'.workout_templates =
                          SelectSeq(db.workout_templates,
                                    LAMBDA tpl : tpl.id # t)
                   /\ db'.sessions = db.sessions
                   /\ db'.programs = db.programs
                   /\ db'.personal_bests = db.personal_bests
        /\ \A s \in SessionIds :
               srv_delete_session(s) =>
                   /\ db'.sessions = SelectSeq(db.sessions, LAMBDA x : x.id # s)
                   /\ db'.workout_templates = db.workout_templates
                   /\ db'.programs = db.programs
                   /\ db'.personal_bests = db.personal_bests

C14_OneLevelCascade == [][C14_api_step /\ C14_file_step]_vars

\* Template 1 has been deleted with its rows while its program, its session
\* and the session's set log are still there, and session 2 has been deleted
\* while its template and the template's row are still there.
C14_Witness ==
    /\ backend = "api"
    /\ get_template(1) = {}
    /\ \A r \in template_exercises : r.template_id # 1
    /\ get_program(1) # {}
    /\ get_session(1) # {}
    /\ logs_of(1) # {}
    /\ get_session(2) = {}
    /\ get_template(2) # {}
    /\ get_row(3) # {}

\* ------------------------------------ specification of copy and fork
\* The API's tables after user 1 has created program 1 at version 2 with
\* visibility public, exercises 1 and 2, templates 1 and 2 under the program
\* and three rows, and user 2 has created the empty program 2
\* (create_program, create_exercise, create_template,
\* add_exercise_to_template).
ForkPrograms ==
    { [id |-> 1, owner_id |-> 1, status |-> "active", version |-> 2,
       visibility |-> "public", is_public |-> FALSE],
      [id |-> 2, owner_id |-> 2, status |-> "active", version |-> 1,
       visibility |-> "private", is_public |-> FALSE] }

ForkTemplates ==
    { [id |-> 1, owner_id |-> 1, program_id |-> 1],
      [id |-> 2, owner_id |-> 1, program_id |-> 1] }

\* data/db.json after the same with the CLI: program 1 (paused) with
\* templates 1 and 2, program 2 with template 3.
ForkDb ==
    [ exercises |-> << [id |-> 1], [id |-> 2] >>,
      programs |->
          << [id |-> 1, name |-> <<"PPL">>, status |-> "paused",
              version |-> 1, start_date |-> "", end_date |-> ""],
             [id |-> 2, name |-> <<"5x5">>, status |-> "active",
              version |-> 1, start_date |-> "", end_date |-> ""] >>,
      workout_templates |->
          << [id |-> 1, program_id |-> 1, exercises |->
                 << [id |-> 1, exercise_id |-> 1, planned_sets |-> 3],
                    [id |-> 2, exercise_id |-> 2, planned_sets |-> 4] >>],
             [id |-> 3, program_id |-> 2, exercises |->
                 << [id |-> 4, exercise_id |-> 2, planned_sets |-> 5] >>],
             [id |-> 2, program_id |-> 1, exercises |->
                 << [id |-> 3, exercise_id |-> 1, planned_sets |-> 5] >>] >>,
      sessions |-> << >>,
      personal_bests |-> << >> ]

InitFork ==
    /\ backend \in Backends
    /\ programs = IF backend = "api" THEN ForkPrograms ELSE {}
    /\ exercises = IF backend = "api" THEN InitExercises ELSE {}
    /\ templates = IF backend = "api" THEN ForkTemplates ELSE {}
    /\ template_exercises = IF backend = "api" THEN CascadeRows ELSE {}
    /\ sessions = {}
    /\ set_logs = {}
    /\ personal_bests = {}
    /\ db = IF backend = "file" THEN ForkDb ELSE InitDb
    /\ next_session_id = 1
    /\ next_set_log_id = 1
    /\ next_id = [program |-> 3, exercise |-> 3,
                  template |-> IF backend = "api" THEN 3 ELSE 4,
                  template_exercise |-> IF backend = "api" THEN 4 ELSE 5,
                  friend_request |-> 1]
    /\ fork = NoFork
    /\ in_flight = NoRequests
    /\ friend_requests = {}
    /\ friendships = {}

\* The arguments of the copy command.
CopyArgs ==
    { [program_id |-> 1, name |-> <<>>, version |-> 1,
       start_date |-> "", end_date |-> ""],
      [program_id |-> 1, name |-> <<"PPL", "2">>, version |-> 2,
       start_date |-> "2025-01-01", end_date |-> "2025-03-01"],
      [program_id |-> 3, name |-> <<>>, version |-> 1,
       start_date |-> "", end_date |-> ""],
      [program_id |-> 9, name |-> <<>>, version |-> 1,
       start_date |-> "", end_date |-> ""] }

ForkProgramIds == 1..MaxPrograms
ForkExerciseIds == 1..2

NextFork ==
    \/ \E u \in Users, p \in ForkProgramIds : copy_program_from_public(u, p)
    \/ copy_program_exercise
    \/ copy_program_template
    \/ copy_program_row
    \/ copy_program_return
    \/ \E u \in Users, p \in ForkProgramIds, b \in BOOLEAN :
           publish_program(u, p, b)
    \/ \E u \in Users, e \in ForkExerciseIds : delete_exercise(u, e)
    \/ \E u \in Users, p \in ForkProgramIds : delete_program(u, p)
    \/ \E args \in CopyArgs : cli_copy_program(args)
    \/ \E p \in ForkProgramIds : srv_delete_program(p)
    \/ \E t \in ForkProgramIds : srv_delete_template(t)

SpecFork == InitFork /\ [][NextFork]_vars

\* ------------------------------------------------------------------ C15
\* What the request in progress has committed is in the tables.
fork_written ==
    \/ get_program(fork.new_program) # {}
    \/ \E n \in 1..Len(fork.new_ex_map) : get_exercise(fork.new_ex_map[n]) # {}
    \/ get_template(fork.new_tpl) # {}
    \/ \E n \in 1..Len(fork.new_templates) :
           get_template(fork.new_templates[n].template) # {}

\* C15: a cascade is atomic.  While a fork has copies left to make, nothing
\* it wrote can be read from the tables, and a fork that fails leaves none of
\* its writes in them.
C15_state ==
    fork.pc \in {"exercises", "templates", "rows"} => ~fork_written

C15_step ==
    (fork.pc \in {"exercises", "templates", "rows"} /\ fork' = NoFork) =>
        /\ \A p \in programs' : p.id # fork.new_program
        /\ \A e \in exercises' :
               \A n \in 1..Len(fork.new_ex_map) : e.id # fork.new_ex_map[n]
        /\ \A tpl \in templates' : tpl.program_id # fork.new_program

C15_CascadeAtomic == []C15_state /\ [][C15_step]_vars

\* ------------------------------------------------------------------ C16
\* The rows the fork read under the source program, counted.
RECURSIVE count_source_rows(_, _)
count_source_rows(f, tpls) ==
    IF tpls = <<>> THEN 0
    ELSE Len(f.rows_by_tpl[tpls[1]]) + count_source_rows(f, Tail(tpls))

\* C16: a fork of a program with N rows that name M distinct exercise ids
\* has, when it is through, created M exercises owned by the forker and N
\* rows, each naming one of the created exercises.
C16_ForkCopiesEveryRow ==
    fork.pc = "commit" =>
        /\ Len(fork.new_ex_map) = Cardinality(fork.exercise_ids)
        /\ count_rows(fork.new_templates) =
               count_source_rows(fork, fork.templates)
        /\ \A n \in 1..Len(fork.new_ex_map) :
               \A e \in get_exercise(fork.new_ex_map[n]) :
                   e.owner_id = fork.user
        /\ \A r \in template_exercises :
               (\E n \in 1..Len(fork.new_templates) :
                    r.template_id = fork.new_templates[n].template) =>
                   \E n \in 1..Len(fork.new_ex_map) :
                       r.exercise_id = fork.new_ex_map[n]

\* ------------------------------------------------------------------ C17
\* C17: a fork goes through only for a public program or the caller's own.
\* The caller who does not own a program that is not public gets 403 and no
\* program, exercise, template or row is created.
C17_step ==
    /\ \A u \in Users, p \in ForkProgramIds :
           (/\ fork.pc = "idle"
            /\ \E source \in get_program(p) :
                   source.owner_id # u /\ ~source.is_public) =>
               /\ copy_program_status(u, p) = 403
               /\ copy_program_from_public(u, p) =>
                      UNCHANGED <<programs, exercises, templates,
                                  template_exercises, fork>>
    /\ (fork.pc = "idle" /\ fork' # fork) =>
           \E source \in get_program(fork'.source) :
               source.is_public \/ source.owner_id = fork'.user

C17_ForkNeedsPublicOrOwner == [][C17_step]_vars

\* User 2 has forked program 1 while it was public; it is private again and
\* the next request of user 2 for it gets 403.
C17_Witness ==
    /\ backend = "api"
    /\ fork.pc = "idle"
    /\ \E p \in programs : p.id = 3 /\ p.owner_id = 2
    /\ \E t \in templates : t.program_id = 3
    /\ \E source \in get_program(1) : ~source.is_public
    /\ copy_program_status(2, 1) = 403

\* ------------------------------------------------------------------ C18
\* C18: the program a fork creates is private, not public, at version 1 and
\* owned by the caller, whatever the source's fields are, and no step of a
\* fork changes a program that existed.
C18_step ==
    fork' # fork =>
        /\ \A p \in programs : p \in programs'
        /\ \A p \in programs' \ programs :
               /\ p.visibility = "private"
               /\ ~p.is_public
               /\ p.version = 1
               /\ p.owner_id = fork'.user
               /\ p.id = fork'.new_program

C18_ForkStartsPrivate == [][C18_step]_vars

\* Program 1 is public at version 2 and its fork by user 2 is private at
\* version 1.
C18_Witness ==
    /\ \E source \in get_program(1) :
           /\ source.is_public
           /\ source.visibility = "public"
           /\ source.version = 2
    /\ \E p \in get_program(3) :
           /\ p.owner_id = 2
           /\ p.version = 1
           /\ p.visibility = "private"
           /\ ~p.is_public
    /\ \E tpl \in templates : tpl.program_id = 3 /\ tpl.owner_id = 2

\* ------------------------------------------------------------------ C19
\* C19: the copy command adds one program with a fresh id, status active
\* and the name, version and dates of the command line, and for every
\* template of the source one new template under the new program whose rows
\* have fresh ids and the planning fields and exercise_id of the source
\* rows; no exercise is added and what was there is unchanged.
C19_step ==
    (backend = "file" /\ db'.programs # db.programs) =>
        \A args \in CopyArgs :
            (cli_copy_program_outcome(args.program_id) = "copied"
                 /\ cli_copy_program(args)) =>
                LET old == db.workout_templates
                    src == SelectSeq(old, LAMBDA tpl :
                                              tpl.program_id = args.program_id)
                    new == SubSeq(db'.workout_templates,
                                  Len(old) + 1, Len(db'.workout_templates))
                    np == db'.programs[Len(db'.programs)]
                IN  /\ Len(db'.programs) = Len(db.programs) + 1
                    /\ SubSeq(db'.programs, 1, Len(db.programs)) = db.programs
                    /\ find_item(db.programs, np.id) = 0
                    /\ np.status = "active"
                    /\ np.version = args.version
                    /\ np.start_date = args.start_date
                    /\ np.end_date = args.end_date
                    /\ args.name # <<>> => np.name = args.name
                    /\ SubSeq(db'.workout_templates, 1, Len(old)) = old
                    /\ Len(new) = Len(src)
                    /\ \A n \in 1..Len(new) :
                           /\ new[n].program_id = np.id
                           /\ find_item(old, new[n].id) = 0
                           /\ \A k \in 1..Len(new) :
                                  new[k].id = new[n].id => k = n
                           /\ Len(new[n].exercises) = Len(src[n].exercises)
                           /\ \A m \in 1..Len(src[n].exercises) :
                                  /\ new[n].exercises[m].exercise_id =
                                         src[n].exercises[m].exercise_id
                                  /\ new[n].exercises[m].planned_sets =
                                         src[n].exercises[m].planned_sets
                                  /\ \A i \in 1..Len(old) :
                                         find_item(old[i].exercises,
                                             new[n].exercises[m].id) = 0
                    /\ \A n, k \in 1..Len(new) :
                           \A m \in 1..Len(new[n].exercises) :
                               \A q \in 1..Len(new[k].exercises) :
                                   new[n].exercises[m].id =
                                       new[k].exercises[q].id =>
                                           (n = k /\ m = q)
                    /\ db'.exercises = db.exercises
                    /\ db'.sessions = db.sessions
                    /\ db'.personal_bests = db.personal_bests

C19_CopyDuplicatesTemplates == [][C19_step]_vars

\* Program 1, paused, has been copied under the name and version of the
\* command line: program 3 is active and has two templates with three rows.
C19_Witness ==
    /\ backend = "file"
    /\ find_item(db.programs, 3) # 0
    /\ db.programs[find_item(db.programs, 3)].status = "active"
    /\ db.programs[find_item(db.programs, 3)].name = <<"PPL", "2">>
    /\ db.programs[find_item(db.programs, 1)].status = "paused"
    /\ count_rows(SelectSeq(db.workout_templates,
                            LAMBDA tpl : tpl.program_id = 3)) = 3
    /\ Len(SelectSeq(db.workout_templates,
                     LAMBDA tpl : tpl.program_id = 3)) = 2

\* ------------------------------------------- specification of friends
\* Three registered users, no request and no friendship yet.  The friends
\* endpoints exist in the API only.
InitFriends ==
    /\ backend = "api"
    /\ programs = {}
    /\ exercises = {}
    /\ templates = {}
    /\ template_exercises = {}
    /\ sessions = {}
    /\ set_logs = {}
    /\ personal_bests = {}
    /\ db = InitDb
    /\ next_session_id = 1
    /\ next_set_log_id = 1
    /\ next_id = InitNextId
    /\ fork = NoFork
    /\ in_flight = NoRequests
    /\ friend_requests = {}
    /\ friendships = {}

\* The recipients a request can name: the users and one unknown name.
Recipients == 1..4
RequestIds == 1..MaxRequests

NextFriends ==
    \/ \E u \in FriendUsers, to \in Recipients : send_friend_request(u, to)
    \/ \E u \in FriendUsers, r \in RequestIds : accept_friend_request(u, r)
    \/ \E u \in FriendUsers, r \in RequestIds : reject_friend_request(u, r)

SpecFriends == InitFriends /\ [][NextFriends]_vars

\* ------------------------------------------------------------------ C20
\* C20: at most one pending friend request exists for an unordered pair of
\* users, in either direction: while one is pending, a request from either
\* of the two to the other is refused and creates no friend request.
C20_state ==
    \A a, b \in FriendUsers :
        /\ Cardinality(pending_between(a, b)) <= 1
        /\ pending_between(a, b) # {} =>
               send_friend_request_status(a, b) = 400

C20_step ==
    \A a, b \in FriendUsers :
        (pending_between(a, b) # {} /\ send_friend_request(a, b)) =>
            friend_requests' = friend_requests

C20_OnePendingRequestPerPair == []C20_state /\ [][C20_step]_vars

\* A request from 1 to 2 is pending after an earlier one from 2 to 1 was
\* rejected, and a request of 2 to 1 is refused now.
C20_Witness ==
    /\ \E fr \in friend_requests :
           /\ fr.from_user_id = 1 /\ fr.to_user_id = 2
           /\ fr.status = "pending"
    /\ \E fr \in friend_requests :
           /\ fr.from_user_id = 2 /\ fr.to_user_id = 1
           /\ fr.status = "rejected"
    /\ next_id.friend_request <= MaxRequests
    /\ send_friend_request_status(2, 1) = 400

\* ------------------------------------------------------------------ C21
\* C21: an accepted or rejected friend request is terminal.  A later accept
\* or reject of it by its recipient is refused with 400 and leaves the
\* requests and the friendships as they were, so the status of a request
\* changes once at most, from pending.
C21_step ==
    /\ \A fr \in friend_requests :
           fr.status # "pending" => fr \in friend_requests'
    /\ \A r \in RequestIds :
           \A fr \in get_friend_request(r) :
               fr.status # "pending" =>
                   /\ respond_status(fr.to_user_id, r) = 400
                   /\ (\/ accept_friend_request(fr.to_user_id, r)
                       \/ reject_friend_request(fr.to_user_id, r)) =>
                          UNCHANGED friend_vars

C21_HandledRequestIsTerminal == [][C21_step]_vars

\* One request has been accepted and another rejected; both now answer 400
\* to their recipients.
C21_Witness ==
    /\ \E fr \in friend_requests :
           fr.status = "accepted" /\ respond_status(fr.to_user_id, fr.id) = 400
    /\ \E fr \in friend_requests :
           fr.status = "rejected" /\ respond_status(fr.to_user_id, fr.id) = 400

\* ------------------------------------------------------------------ C22
\* The Friendship rows of an unordered pair of users.
rows_of_pair(a, b) ==
    {f \in friendships : {f.user_id, f.friend_id} = {a, b}}

\* C22: accepting a pending request from A to B adds exactly one Friendship
\* row, the only one of the pair; then each of the two is in the other's
\* list of friends, and a second accept of the request is refused with 400
\* and adds no row.
C22_step ==
    friend_requests' # friend_requests =>
        \A r \in RequestIds :
            \A fr \in get_friend_request(r) :
                (/\ fr.status = "pending"
                 /\ accept_friend_request(fr.to_user_id, r)) =>
                    /\ Cardinality(friendships' \ friendships) = 1
                    /\ friendships \subseteq friendships'
                    /\ Cardinality(rows_of_pair(fr.from_user_id,
                                                fr.to_user_id)') = 1
                    /\ fr.to_user_id \in list_friends(fr.from_user_id)'
                    /\ fr.from_user_id \in list_friends(fr.to_user_id)'
                    /\ respond_status(fr.to_user_id, r)' = 400

C22_state ==
    \A a, b \in FriendUsers : b \in list_friends(a) <=> a \in list_friends(b)

C22_AcceptCreatesOneFriendship == []C22_state /\ [][C22_step]_vars

\* The request of 2 to 1 has been accepted: each is in the other's list.
C22_Witness ==
    /\ \E fr \in friend_requests :
           /\ fr.from_user_id = 2 /\ fr.to_user_id = 1
           /\ fr.status = "accepted"
    /\ list_friends(1) = {2}
    /\ list_friends(2) = {1}
    /\ Cardinality(rows_of_pair(1, 2)) = 1

\* ------------------------------------------------------------------ C23
\* C23: every Friendship row has user_id < friend_id, so nobody is their
\* own friend, and no two rows are of the same unordered pair of users.
C23_CanonicalFriendships ==
    /\ \A f \in friendships : f.user_id < f.friend_id
    /\ \A f, g \in friendships :
           {f.user_id, f.friend_id} = {g.user_id, g.friend_id} => f = g

\* Requests in both directions have been accepted: from 2 to 1 and from 1
\* to 3, stored as (1, 2) and (1, 3).
C23_Witness ==
    /\ \E fr \in friend_requests :
           /\ fr.from_user_id = 2 /\ fr.to_user_id = 1
           /\ fr.status = "accepted"
    /\ \E fr \in friend_requests :
           /\ fr.from_user_id = 1 /\ fr.to_user_id = 3
           /\ fr.status = "accepted"
    /\ friendships = {[user_id |-> 1, friend_id |-> 2],
                      [user_id |-> 1, friend_id |-> 3]}

\* ------------------------------------------------------------------ C24
\* C24: only the user a friend request is addressed to may accept or reject
\* it.  Any other user, the sender included, is refused with 403, whatever
\* the status of the request, and the requests and friendships stay as they
\* were.
C24_step ==
    \A u \in FriendUsers, r \in RequestIds :
        \A fr \in get_friend_request(r) :
            fr.to_user_id # u =>
                /\ respond_status(u, r) = 403
                /\ (accept_friend_request(u, r)
                        \/ reject_friend_request(u, r)) =>
                       UNCHANGED friend_vars

\* C24, as a state predicate: a request is answered 200 to its recipient
\* only.
C24_only_recipient ==
    \A fr \in friend_requests :
        \A u \in FriendUsers :
            respond_status(u, fr.id) = 200 => u = fr.to_user_id

C24_OnlyRecipientResponds == []C24_only_recipient /\ [][C24_step]_vars

\* The request of 1 to 2 is pending: 1 and 3 are refused with 403, 2 is not.
C24_Witness ==
    \E fr \in friend_requests :
        /\ fr.from_user_id = 1 /\ fr.to_user_id = 2
        /\ fr.status = "pending"
        /\ respond_status(1, fr.id) = 403
        /\ respond_status(3, fr.id) = 403
        /\ respond_status(2, fr.id) = 200

\* ------------------------------------------------------------------ C25
\* C25: a friend request to a user who is a friend of the caller already is
\* refused and creates no request, so no pending request ever exists
\* between two users who have a Friendship row.
C25_state ==
    \A a, b \in FriendUsers :
        rows_of_pair(a, b) # {} =>
            /\ pending_between(a, b) = {}
            /\ send_friend_request_status(a, b) = 400

C25_step ==
    \A a, b \in FriendUsers :
        (rows_of_pair(a, b) # {} /\ send_friend_request(a, b)) =>
            friend_requests' = friend_requests

C25_NoRequestBetweenFriends == []C25_state /\ [][C25_step]_vars

\* 1 and 2 are friends, no request between them is pending, a further
\* request could still be stored, and each is refused a request to the
\* other.
C25_Witness ==
    /\ rows_of_pair(1, 2) # {}
    /\ pending_between(1, 2) = {}
    /\ next_id.friend_request <= MaxRequests
    /\ send_friend_request_status(1, 2) = 400
    /\ send_friend_request_status(2, 1) = 400

\* ------------------------------------------------------------------ C26
\* C26: rejecting a pending request sets its status to rejected and adds no
\* Friendship row; after it either of the two users is let through with a
\* new request to the other, and a request that is let through adds one
\* pending request from the caller to the recipient.
C26_step ==
    friend_requests' # friend_requests =>
        /\ \A r \in RequestIds :
               \A fr \in get_friend_request(r) :
                   (/\ fr.status = "pending"
                    /\ reject_friend_request(fr.to_user_id, r)) =>
                       /\ friend_requests' = (friend_requests \ {fr}) \cup
                              {[fr EXCEPT !.status = "rejected"]}
                       /\ friendships' = friendships
                       /\ send_friend_request_status(fr.from_user_id,
                                                     fr.to_user_id)' = 200
                       /\ send_friend_request_status(fr.to_user_id,
                                                     fr.from_user_id)' = 200
        /\ \A a, b \in FriendUsers :
               (/\ send_friend_request_status(a, b) = 200
                /\ send_friend_request(a, b)) =>
                   /\ friend_requests \subseteq friend_requests'
                   /\ Cardinality(friend_requests' \ friend_requests) = 1
                   /\ \A fr \in friend_requests' \ friend_requests :
                          /\ fr.from_user_id = a
                          /\ fr.to_user_id = b
                          /\ fr.status = "pending"
                          /\ get_friend_request(fr.id) = {}

C26_RejectedPairMayRequestAgain == [][C26_step]_vars

\* The request of 1 to 2 was rejected, and a later request of 2 to 1 is
\* pending.
C26_Witness ==
    \E old, new \in friend_requests :
        /\ old.from_user_id = 1 /\ old.to_user_id = 2
        /\ old.status = "rejected"
        /\ new.from_user_id = 2 /\ new.to_user_id = 1
        /\ new.status = "pending"
        /\ old.id < new.id
        /\ friendships = {}

\* ------------------------------------------------------------------ C27
\* C27: a request of a user to themselves is refused as a conflict (400) and
\* stores nothing, so no stored request has from_user_id = to_user_id.
C27_state ==
    /\ \A fr \in friend_requests : fr.from_user_id # fr.to_user_id
    /\ \A u \in FriendUsers : send_friend_request_status(u, u) = 400

C27_step ==
    \A u \in FriendUsers :
        send_friend_request(u, u) =>
            /\ friend_requests' = friend_requests
            /\ friendships' = friendships

C27_NoSelfRequest == []C27_state /\ [][C27_step]_vars

\* Requests are stored, there is room for another one, and user 1 asking
\* themselves is answered 400.
C27_Witness ==
    /\ friend_requests # {}
    /\ next_id.friend_request <= MaxRequests
    /\ send_friend_request_status(1, 1) = 400
    /\ ENABLED send_friend_request(1, 1)

\* ============================================================ ownership
\* User 1 has an exercise, a program, a workout template with one row and a
\* finished session with the sets 100 x 5 and 90 x 8, which gave five
\* PersonalBest rows (create_exercise, create_program, create_template,
\* add_exercise_to_template, start_session, log_set twice, finish_session).
\* User 2 has registered and owns nothing yet.
OwnerExercises == { [id |-> 1, owner_id |-> 1, name |-> "bench"] }

OwnerPrograms ==
    { [id |-> 1, owner_id |-> 1, status |-> "active", version |-> 1,
       visibility |-> "private", is_public |-> FALSE] }

OwnerTemplates == { [id |-> 1, owner_id |-> 1, program_id |-> 1] }

OwnerRows ==
    { [id |-> 1, template_id |-> 1, exercise_id |-> 1, planned_sets |-> 3] }

OwnerSetLogs ==
    << [id |-> 1, session_id |-> 1, exercise_id |-> 1,
        weight |-> 100, reps |-> 5],
       [id |-> 2, session_id |-> 1, exercise_id |-> 1,
        weight |-> 90, reps |-> 8] >>

OwnerSession == [id |-> 1, owner_id |-> 1, template_id |-> 1,
                 program_id |-> 1, date |-> 1, status |-> "done"]

InitOwnership ==
    /\ backend = "api"
    /\ programs = OwnerPrograms
    /\ exercises = OwnerExercises
    /\ templates = OwnerTemplates
    /\ template_exercises = OwnerRows
    /\ sessions = {OwnerSession}
    /\ set_logs = {OwnerSetLogs[1], OwnerSetLogs[2]}
    /\ personal_bests = api_merge_logs({}, 1, OwnerSession, OwnerSetLogs)
    /\ db = InitDb
    /\ next_session_id = 2
    /\ next_set_log_id = 3
    /\ next_id = [program |-> 2, exercise |-> 2, template |-> 2,
                  template_exercise |-> 2, friend_request |-> 1]
    /\ fork = NoFork
    /\ in_flight = NoRequests
    /\ friend_requests = {}
    /\ friendships = {}

\* The ids a request may name: the ids handed out and one never handed out.
OwnerProgramIds == 1..next_id.program
OwnerTemplateIds == 1..next_id.template
OwnerRowIds == 1..next_id.template_exercise
OwnerExerciseIds == 1..next_id.exercise

\* The request bodies.  A program is paused; a template is moved to a
\* program; a row is added; a row's comment and an exercise's notes are
\* rewritten (columns the model does not keep, so the row stays as it is);
\* a set is logged.
ProgramUpdates == {[status |-> "paused"]}
TemplateUpdates == {[program_id |-> p] : p \in OwnerProgramIds}
RowCreates == {[exercise_id |-> 1, planned_sets |-> 3]}
RowUpdates == {[row_id |-> r, comment |-> "slow"] : r \in OwnerRowIds}
ExerciseUpdates == {[notes |-> "grip"]}
OwnerSetInput == [exercise_id |-> 1, weight |-> 90, reps |-> 8]

NextOwnership ==
    \/ \E u \in Users, e \in OwnerExerciseIds, b \in ExerciseUpdates :
           update_exercise(u, e, b)
    \/ \E u \in Users, e \in OwnerExerciseIds : delete_exercise(u, e)
    \/ \E u \in Users, p \in OwnerProgramIds, b \in ProgramUpdates :
           update_program(u, p, b)
    \/ \E u \in Users, p \in OwnerProgramIds : delete_program(u, p)
    \/ \E u \in Users, t \in OwnerTemplateIds, b \in TemplateUpdates :
           update_template(u, t, b)
    \/ \E u \in Users, t \in OwnerTemplateIds : delete_template(u, t)
    \/ \E u \in Users, t \in OwnerTemplateIds, b \in RowCreates :
           add_exercise_to_template(u, t, b)
    \/ \E u \in Users, t \in OwnerTemplateIds, b \in RowUpdates :
           update_exercise_in_template(u, t, b)
    \/ \E u \in Users, t \in OwnerTemplateIds, r \in OwnerRowIds :
           remove_exercise_from_template(u, t, r)
    \/ \E u \in Users, t \in OwnerTemplateIds : start_session(u, t, today)
    \/ \E u \in Users, s \in SessionIds : log_set(u, s, OwnerSetInput)
    \/ \E u \in Users, s \in SessionIds : finish_session(u, s)
    \/ \E u \in Users, s \in SessionIds : cancel_session(u, s)
    \/ \E u \in Users, s \in SessionIds : delete_session(u, s)
    \/ \E u \in Users, pb \in PbIds : publish_pb(u, pb, TRUE)

SpecOwnership == InitOwnership /\ [][NextOwnership]_vars

\* ------------------------------------------------------------------ C28
\* C28, the answers: a request of a user that names an exercise, a program,
\* a workout template, a session or a PersonalBest of another user is
\* answered 403 by every handler that writes; so is a request for a row
\* under the template that holds it, when the template is another user's.
\* (A row has no owner of its own: it is addressed as a row of a template,
\* and under any other template the row handlers answer 403 or 404.)
C28_refused ==
    \A u \in Users :
        /\ \A e \in exercises :
               e.owner_id # u =>
                   /\ delete_exercise_status(u, e.id) = 403
                   /\ \A b \in ExerciseUpdates :
                          update_exercise_status(u, e.id, b) = 403
        /\ \A pr \in programs :
               pr.owner_id # u =>
                   /\ update_program_status(u, pr.id) = 403
                   /\ delete_program_status(u, pr.id) = 403
        /\ \A tpl \in templates :
               tpl.owner_id # u =>
                   /\ update_template_status(u, tpl.id) = 403
                   /\ delete_template_status(u, tpl.id) = 403
                   /\ add_exercise_to_template_status(u, tpl.id) = 403
                   /\ start_session_status(u, tpl.id) = 403
                   /\ \A r \in template_exercises :
                          r.template_id = tpl.id =>
                              /\ remove_exercise_from_template_status(
                                     u, tpl.id, r.id) = 403
                              /\ \A b \in RowUpdates :
                                     b.row_id = r.id =>
                                         update_exercise_in_template_status(
                                             u, tpl.id, b) = 403
                              /\ \A t \in OwnerTemplateIds :
                                     remove_exercise_from_template_status(
                                         u, t, r.id) \in {403, 404}
        /\ \A s \in sessions :
               s.owner_id # u =>
                   /\ log_set_status(u, s.id) = 403
                   /\ finish_session_status(u, s.id) = 403
                   /\ cancel_session_status(u, s.id) = 403
                   /\ delete_session_status(u, s.id) = 403
        /\ \A pb \in personal_bests :
               pb.owner_id # u => publish_pb_status(u, pb.id) = 403

\* C28, the store: no step that changes the store is a request of a user
\* for an exercise, program, template, row, session or PersonalBest of
\* another user.
C28_step ==
    \A u \in Users :
        /\ \A e \in exercises :
               e.owner_id # u =>
                   /\ ~delete_exercise(u, e.id)
                   /\ \A b \in ExerciseUpdates : ~update_exercise(u, e.id, b)
        /\ \A pr \in programs :
               pr.owner_id # u =>
                   /\ ~delete_program(u, pr.id)
                   /\ \A b \in ProgramUpdates : ~update_program(u, pr.id, b)
        /\ \A tpl \in templates :
               tpl.owner_id # u =>
                   /\ ~delete_template(u, tpl.id)
                   /\ ~start_session(u, tpl.id, today)
                   /\ \A b \in TemplateUpdates : ~update_template(u, tpl.id, b)
                   /\ \A b \in RowCreates :
                          ~add_exercise_to_template(u, tpl.id, b)
                   /\ \A r \in template_exercises, t \in OwnerTemplateIds :
                          r.template_id = tpl.id =>
                              /\ ~remove_exercise_from_template(u, t, r.id)
                              /\ \A b \in RowUpdates :
                                     b.row_id = r.id =>
                                         ~update_exercise_in_template(u, t, b)
        /\ \A s \in sessions :
               s.owner_id # u =>
                   /\ ~log_set(u, s.id, OwnerSetInput)
                   /\ ~finish_session(u, s.id)
                   /\ ~cancel_session(u, s.id)
                   /\ ~delete_session(u, s.id)
        /\ \A pb \in personal_bests :
               pb.owner_id # u => ~publish_pb(u, pb.id, TRUE)

TemplateCreates == {[program_id |-> p] : p \in OwnerProgramIds}

NextTemplates ==
    \/ \E u \in Users, b \in TemplateCreates : create_template(u, b)
    \/ \E u \in Users, t \in OwnerTemplateIds, b \in TemplateUpdates :
           update_template(u, t, b)
    \/ \E u \in Users, t \in OwnerTemplateIds, b \in RowCreates :
           add_exercise_to_template(u, t, b)
    \/ \E u \in Users, t \in OwnerTemplateIds : start_session(u, t, today)
    \/ \E u \in Users, t \in OwnerTemplateIds : delete_template(u, t)
    \/ \E u \in Users, p \in OwnerProgramIds : delete_program(u, p)

SpecTemplates == InitOwnership /\ [][NextTemplates]_vars

\* ------------------------------------------------------------------ C29
\* C29: what a delete_program of user u removes is u's: every WorkoutTemplate
\* and every Session that goes has owner_id = u, and every TemplateRow that
\* goes is a row of a template of u.
C29_step ==
    \A u \in Users, p \in OwnerProgramIds :
        (/\ delete_program_status(u, p) = 200
         /\ delete_program(u, p)) =>
            /\ \A tpl \in templates \ templates' : tpl.owner_id = u
            /\ \A s \in sessions \ sessions' : s.owner_id = u
            /\ \A r \in template_exercises \ template_exercises' :
                   \A tpl \in get_template(r.template_id) : tpl.owner_id = u

C29_DeleteProgramRemovesOwnOnly == [][C29_step]_vars

\* ------------------------------------------------------------------ C30
\* C30: every WorkoutTemplate's program_id is the id of a Program in the
\* store, and that Program has the template's owner_id.
C30_TemplateUnderOwnProgram ==
    \A tpl \in templates :
        \E pr \in programs :
            /\ pr.id = tpl.program_id
            /\ pr.owner_id = tpl.owner_id

\* ================================================== rows and exercises
\* The handlers that write a row's exercise_id: add_exercise_to_template, update_exercise_in_template
\* and the fork, which user 2 may ask for once user 1 has published the
\* program.  A request names an exercise that exists.
ExistingExerciseIds == {e.id : e \in exercises}
RowExerciseCreates ==
    {[exercise_id |-> e, planned_sets |-> 3] : e \in ExistingExerciseIds}
RowExerciseUpdates ==
    {[row_id |-> r, exercise_id |-> e] :
         r \in OwnerRowIds, e \in ExistingExerciseIds}

NextRows ==
    \/ \E u \in Users, p \in OwnerProgramIds : publish_program(u, p, TRUE)
    \/ \E u \in Users, p \in OwnerProgramIds : copy_program_from_public(u, p)
    \/ copy_program_exercise
    \/ copy_program_template
    \/ copy_program_row
    \/ copy_program_return
    \/ \E u \in Users, t \in OwnerTemplateIds, b \in RowExerciseCreates :
           add_exercise_to_template(u, t, b)
    \/ \E u \in Users, t \in OwnerTemplateIds, b \in RowExerciseUpdates :
           update_exercise_in_template(u, t, b)

\* User 2 has created a program of their own (create_program), so that one
\* more program, a fork, fits under MaxPrograms.
RowsPrograms ==
    OwnerPrograms \cup
    { [id |-> 2, owner_id |-> 2, status |-> "active", version |-> 1,
       visibility |-> "private", is_public |-> FALSE] }

InitRows ==
    /\ backend = "api"
    /\ programs = RowsPrograms
    /\ exercises = OwnerExercises
    /\ templates = OwnerTemplates
    /\ template_exercises = OwnerRows
    /\ sessions = {OwnerSession}
    /\ set_logs = {OwnerSetLogs[1], OwnerSetLogs[2]}
    /\ personal_bests = api_merge_logs({}, 1, OwnerSession, OwnerSetLogs)
    /\ db = InitDb
    /\ next_session_id = 2
    /\ next_set_log_id = 3
    /\ next_id = [program |-> 3, exercise |-> 2, template |-> 2,
                  template_exercise |-> 2, friend_request |-> 1]
    /\ fork = NoFork
    /\ in_flight = NoRequests
    /\ friend_requests = {}
    /\ friendships = {}

SpecRows == InitRows /\ [][NextRows]_vars

\* ------------------------------------------------------------------ C31
\* C31: every TemplateRow names an Exercise whose owner is the owner of the
\* Program that the row's template is under.
C31_RowExerciseOfProgramOwner ==
    \A r \in template_exercises :
        \A tpl \in get_template(r.template_id) :
            \A pr \in get_program(tpl.program_id) :
                \E e \in exercises :
                    /\ e.id = r.exercise_id
                    /\ e.owner_id = pr.owner_id

\* ------------------------------------------------------------------ C32
\* C32: no two Exercises of one owner have the same name, case ignored (a
\* name of the model is the lower-cased name).
C32_UniqueExerciseNames ==
    \A e1, e2 \in exercises :
        (e1.owner_id = e2.owner_id /\ e1.name = e2.name) => e1.id = e2.id

\* ------------------------------------------------------------------ C33
\* The three rows a set log of weight w and reps r leaves in an empty
\* PersonalBest set, values in thirtieths: est_1rm w * (30 + r),
\* max_weight_reps 30 * w with reps r, max_volume 30 * w * r.
three_candidates(l, after) ==
    /\ Cardinality(after) = 3
    /\ \A q \in after : q.exercise_id = l.exercise_id /\ q.set_log_id = l.id
    /\ \E q \in after :
           q.kind = "est_1rm" /\ q.value = l.weight * (30 + l.reps)
    /\ \E q \in after :
           /\ q.kind = "max_weight_reps"
           /\ q.value = 30 * l.weight
           /\ q.reps = l.reps
    /\ \E q \in after :
           q.kind = "max_volume" /\ q.value = 30 * (l.weight * l.reps)

\* C33: a finish that merges one set log into an owner's empty PersonalBest
\* set stores the three candidates est_1rm = w * (1 + r / 30),
\* max_weight_reps = w with reps r and max_volume = w * r; for 100 x 5 these
\* are 3500/30, 100 and 500.
C33_api_step ==
    api_finish_like => \A u \in Users, s \in SessionIds :
        (/\ api_finish_step(u, s)
         /\ \A p \in personal_bests : p.owner_id # u
         /\ Cardinality(logs_of(s)) = 1) =>
            \A l \in logs_of(s) :
                /\ three_candidates(l, {q \in personal_bests' : q.owner_id = u})
                /\ (l.weight = 100 /\ l.reps = 5) =>
                       {q.value : q \in {x \in personal_bests' :
                                             x.owner_id = u}}
                           = {3500, 30 * 100, 30 * 500}

C33_file_step ==
    file_finish_like => \A s \in SessionIds :
        (/\ file_finish_step(s)
         /\ db.personal_bests = << >>
         /\ Len(db.sessions[find_item(db.sessions, s)].set_logs) = 1) =>
            LET l == db.sessions[find_item(db.sessions, s)].set_logs[1]
                after == {db'.personal_bests[i] : i \in DOMAIN db'.personal_bests}
            IN  /\ three_candidates(l, after)
                /\ Len(db'.personal_bests) = 3
                /\ (l.weight = 100 /\ l.reps = 5) =>
                       {q.value : q \in after} = {3500, 30 * 100, 30 * 500}

C33_ThreeCandidates == [][C33_api_step /\ C33_file_step]_vars

\* The spec's example: the only PersonalBest rows are those of one finished
\* set of 100 x 5, with the values 3500/30, 100 and 500.
C33_Witness ==
    \/ /\ backend = "api"
       /\ Cardinality(personal_bests) = 3
       /\ {q.value : q \in personal_bests} = {3500, 3000, 15000}
       /\ \E l \in set_logs : l.weight = 100 /\ l.reps = 5
                              /\ \A q \in personal_bests : q.set_log_id = l.id
    \/ /\ backend = "file"
       /\ Len(db.personal_bests) = 3
       /\ {db.personal_bests[i].value : i \in 1..3} = {3500, 3000, 15000}

\* --------------------------------------- API: two finishes side by side
\* main.py finish_session is a plain `def`: the framework runs it in a
\* thread, each request with its own Session(engine) (db.py get_session).
\* What a request reads is what is committed plus its own pending changes;
\* what it writes reaches the others at its db.commit().  The steps below
\* are the statements of finish_session and of update_personal_bests that
\* touch the store: every lookup is a step, the commit is a step.  No lock
\* is modelled, so the schedules of every engine are among the model's:
\* the serial ones of a store with one writer at a time as well as the
\* interleaved ones of a store that lets two writers in.

\* The PersonalBest rows as the Session of worker w sees them: the committed
\* rows, the ones it has changed as it changed them, and the ones it added.
own_view(w) ==
    LET f == in_flight[w]
    IN  {pb \in personal_bests : \A c \in f.changed : c.old.id # pb.id}
            \cup {c.new : c \in f.changed} \cup f.added

\* main.py finish_session, `for log in logs: update_personal_bests(...)`:
\* the (set log, entry) pairs in the order in which they are looked up.
RECURSIVE lookups(_)
lookups(logs) ==
    IF logs = << >> THEN << >>
    ELSE LET es == entries(Head(logs))
         IN  << [log |-> Head(logs), e |-> es[1]],
                [log |-> Head(logs), e |-> es[2]],
                [log |-> Head(logs), e |-> es[3]] >> \o lookups(Tail(logs))

\* main.py finish_session up to the loop: ensure_owner, the status set to
\* done in the Session, the set logs selected.
finish_session_begin(w, user, session_id) ==
    /\ backend = "api"
    /\ in_flight[w] = Idle
    /\ IF finish_session_status(user, session_id) # 200 THEN UNCHANGED vars
       ELSE LET sess == CHOOSE s \in get_session(session_id) : TRUE
            IN  \E logs \in select_all(logs_of(sess.id)) :
                    /\ in_flight' = [in_flight EXCEPT ![w] =
                           [pc |-> "merge", user |-> user, sess |-> sess,
                            todo |-> lookups(logs),
                            changed |-> {}, added |-> {}]]
                    /\ UNCHANGED <<backend, api_vars, db, next_session_id,
                                   next_set_log_id, programs, exercises,
                                   template_exercises, next_id, fork,
                                   friend_vars>>

\* One turn of the loop of main.py update_personal_bests in worker w: the
\* lookup of the existing row and the change it leads to, kept in the
\* Session until the commit.  A row added by db.add has no id before it is
\* written: it carries a negative one here.
finish_session_lookup(w) ==
    LET f == in_flight[w]
    IN  /\ backend = "api"
        /\ f.pc = "merge"
        /\ f.todo # << >>
        /\ LET item == Head(f.todo)
               seen == own_view(w)
               after == api_merge_entry(seen, f.user, f.sess, item.log, item.e)
               g == [f EXCEPT !.todo = Tail(f.todo)]
           IN  in_flight' = [in_flight EXCEPT ![w] =
                   IF after = seen THEN g
                   ELSE LET row == CHOOSE r \in after \ seen : TRUE
                        IN  IF Cardinality(after) > Cardinality(seen)
                            THEN [g EXCEPT !.added = @ \cup
                                     {[row EXCEPT !.id = 0 - (Cardinality(f.added) + 1)]}]
                            ELSE IF row.id < 0
                            THEN [g EXCEPT !.added =
                                     {a \in @ : a.id # row.id} \cup {row}]
                            ELSE LET old == CHOOSE r \in seen \ after : TRUE
                                     first == {c.old : c \in {d \in f.changed : d.old.id = row.id}}
                                     loaded == IF first = {} THEN old
                                               ELSE CHOOSE o \in first : TRUE
                                 IN  [g EXCEPT !.changed =
                                         {c \in @ : c.old.id # row.id} \cup
                                         {[old |-> loaded, new |-> row]}]]
        /\ UNCHANGED <<backend, api_vars, db, next_session_id, next_set_log_id,
                       programs, exercises, template_exercises, next_id, fork,
                       friend_vars>>

\* A commit_changed that keeps the larger value: it looks at the row as it is
\* stored now and leaves it alone when the stored value is not smaller.
commit_changed_keeps_larger(stored, c) ==
    IF stored.value >= c.new.value THEN stored
    ELSE [stored EXCEPT !.value = c.new.value,
                        !.reps = c.new.reps,
                        !.date = c.new.date,
                        !.set_log_id = c.new.set_log_id,
                        !.label = c.new.label]

\* The UPDATE that db.commit() sends for a row the request has changed: by
\* id, setting the columns whose value differs from the one loaded; the
\* stored row is not read again.
commit_changed(stored, c) ==
    [stored EXCEPT
        !.value = IF c.new.value # c.old.value THEN c.new.value ELSE @,
        !.reps = IF c.new.reps # c.old.reps THEN c.new.reps ELSE @,
        !.date = IF c.new.date # c.old.date THEN c.new.date ELSE @,
        !.set_log_id = IF c.new.set_log_id # c.old.set_log_id
                       THEN c.new.set_log_id ELSE @,
        !.label = IF c.new.label # c.old.label THEN c.new.label ELSE @]

\* db.commit() of worker w for the PersonalBest table: the UPDATEs of the
\* rows it changed, the INSERTs of the rows it added, with fresh ids in the
\* order in which they were added.
commit_personal_bests(w) ==
    LET f == in_flight[w]
        n == Cardinality(personal_bests)
    IN  {IF \E c \in f.changed : c.old.id = pb.id
         THEN commit_changed(pb, CHOOSE c \in f.changed : c.old.id = pb.id)
         ELSE pb : pb \in personal_bests}
        \cup {[a EXCEPT !.id = n - a.id] : a \in f.added}

\* main.py finish_session, db.add(sess) and db.commit(): the session row
\* and the PersonalBest changes of the request are written.
finish_session_commit(w) ==
    LET f == in_flight[w]
    IN  /\ backend = "api"
        /\ f.pc = "merge"
        /\ f.todo = << >>
        /\ sessions' = {IF s.id = f.sess.id THEN [s EXCEPT !.status = "done"]
                        ELSE s : s \in sessions}
        /\ personal_bests' = commit_personal_bests(w)
        /\ in_flight' = [in_flight EXCEPT ![w] = Idle]
        /\ UNCHANGED <<backend, templates, set_logs, db, next_session_id,
                       next_set_log_id, programs, exercises,
                       template_exercises, next_id, fork, friend_vars>>

\* The start: user 1 has trained exercise 1 three times.  Session 1 (one
\* set, 90 x 8) is finished, or was cancelled without a merge; sessions 2
\* (110 x 5) and 3 (100 x 5) are in progress.
RaceSetLogs ==
    { [id |-> 1, session_id |-> 1, exercise_id |-> 1, weight |-> 90, reps |-> 8],
      [id |-> 2, session_id |-> 2, exercise_id |-> 1, weight |-> 110, reps |-> 5],
      [id |-> 3, session_id |-> 3, exercise_id |-> 1, weight |-> 100, reps |-> 5] }

RaceSession(id, status) ==
    [id |-> id, owner_id |-> 1, template_id |-> 1, program_id |-> 1,
     date |-> id, status |-> status]

InitRace ==
    /\ backend = "api"
    /\ programs = OwnerPrograms
    /\ exercises = OwnerExercises
    /\ templates = OwnerTemplates
    /\ template_exercises = OwnerRows
    /\ \E merged \in BOOLEAN :
           /\ sessions = {RaceSession(1, IF merged THEN "done" ELSE "cancelled"),
                          RaceSession(2, "in_progress"),
                          RaceSession(3, "in_progress")}
           /\ personal_bests =
                  IF merged
                  THEN api_merge_logs({}, 1, RaceSession(1, "done"),
                                      <<CHOOSE l \in RaceSetLogs : l.id = 1>>)
                  ELSE {}
    /\ set_logs = RaceSetLogs
    /\ db = InitDb
    /\ next_session_id = 4
    /\ next_set_log_id = 4
    /\ next_id = [program |-> 2, exercise |-> 2, template |-> 2,
                  template_exercise |-> 2, friend_request |-> 1]
    /\ fork = NoFork
    /\ in_flight = NoRequests
    /\ friend_requests = {}
    /\ friendships = {}

NextRace ==
    \/ \E w \in Workers, u \in Users, s \in SessionIds :
           finish_session_begin(w, u, s)
    \/ \E w \in Workers : finish_session_lookup(w)
    \/ \E w \in Workers : finish_session_commit(w)

SpecRace == InitRace /\ [][NextRace]_vars

\* ------------------------------------------------------------------ C34
\* The key of a PersonalBest row: owner, exercise, kind and, for every kind
\* but est_1rm, the rep count.
pb_key(pb) ==
    <<pb.owner_id, pb.exercise_id, pb.kind,
      IF pb.kind # "est_1rm" THEN pb.reps ELSE 0>>

\* The commit of worker w: it had no lookup left and is idle afterwards.
commits(w) ==
    /\ in_flight[w].pc = "merge"
    /\ in_flight[w].todo = << >>
    /\ in_flight'[w] = Idle

C34_step ==
    \A w \in Workers :
        commits(w) =>
            /\ \A c \in in_flight[w].changed :
                   \E pb \in personal_bests' :
                       pb.id = c.old.id /\ pb.value = c.new.value
            /\ \A a \in in_flight[w].added :
                   \E pb \in personal_bests' :
                       /\ \A q \in personal_bests : q.id # pb.id
                       /\ pb_key(pb) = pb_key(a)
                       /\ pb.value = a.value
            /\ Cardinality(personal_bests') =
                   Cardinality(personal_bests) + Cardinality(in_flight[w].added)

\* C34: two finishes of one owner race on the PB merge.  What a request
\* commits was decided at its lookups: a row it found smaller than its
\* candidate gets the candidate's value whatever is stored by then, and a
\* key it found without a row gets a new row whether or not one has been
\* stored since.  So the last commit decides: the stored value can end up
\* below the larger candidate, and one key can end up with two rows.
C34_LastCommitDecides == [][C34_step]_vars

\* Both requests are through, sessions 2 (110 x 5) and 3 (100 x 5) are done,
\* and the estimate stored for user 1 and exercise 1 is the one of 100 x 5:
\* the larger candidate, the one of 110 x 5, is lost.
C34_Witness ==
    /\ in_flight = NoRequests
    /\ \A s \in sessions : s.id \in {2, 3} => s.status = "done"
    /\ \E pb \in personal_bests :
           pb.kind = "est_1rm" /\ pb.value = estimate_one_rm(100, 5)
    /\ \A pb \in personal_bests :
           pb.kind = "est_1rm" => pb.value < estimate_one_rm(110, 5)

\* Both requests are through and one key has two rows.
C34_TwoRowsForOneKey ==
    /\ in_flight = NoRequests
    /\ \E p, q \in personal_bests : p.id # q.id /\ pb_key(p) = pb_key(q)

\* ------------------------------- API: two friend requests side by side
\* The requests that have passed the checks and not inserted yet, counted
\* against MaxRequests with the rows inserted.
inserts_in_flight == Cardinality({w \in Workers : in_flight[w].pc = "insert"})

\* main.py send_friend_request up to `if pending: raise`: the recipient is
\* looked up, then the friendship, then the pending request between the
\* two.  The three SELECTs are taken as one step: the request that passes
\* them goes on to the insert with what it has seen.
send_friend_request_check(w, user, to_user) ==
    /\ backend = "api"
    /\ in_flight[w] = Idle
    /\ next_id.friend_request + inserts_in_flight <= MaxRequests
    /\ IF send_friend_request_status(user, to_user) # 200 THEN UNCHANGED vars
       ELSE /\ in_flight' = [in_flight EXCEPT ![w] =
                   [pc |-> "insert", from_user_id |-> user,
                    to_user_id |-> to_user]]
            /\ UNCHANGED <<backend, api_vars, db, next_session_id,
                           next_set_log_id, programs, exercises,
                           template_exercises, next_id, fork, friend_vars>>

\* main.py send_friend_request, db.add(fr) and db.commit(): the row is
\* inserted with a fresh id; the table is not read again and FriendRequest
\* has no unique constraint that could refuse the row.
send_friend_request_insert(w) ==
    LET f == in_flight[w]
    IN  /\ backend = "api"
        /\ f.pc = "insert"
        /\ friend_requests' = friend_requests \cup
               {[id |-> next_id.friend_request,
                 from_user_id |-> f.from_user_id,
                 to_user_id |-> f.to_user_id,
                 status |-> "pending"]}
        /\ next_id' = [next_id EXCEPT !.friend_request = @ + 1]
        /\ in_flight' = [in_flight EXCEPT ![w] = Idle]
        /\ UNCHANGED <<backend, api_vars, db, next_session_id, next_set_log_id,
                       programs, exercises, template_exercises, fork,
                       friendships>>

NextSendRace ==
    \/ \E w \in Workers, u \in FriendUsers, to \in Recipients :
           send_friend_request_check(w, u, to)
    \/ \E w \in Workers : send_friend_request_insert(w)
    \/ \E u \in FriendUsers, r \in RequestIds : accept_friend_request(u, r)
    \/ \E u \in FriendUsers, r \in RequestIds : reject_friend_request(u, r)

SpecSendRace == InitFriends /\ [][NextSendRace]_vars

\* ------------------------------------------------------------------ C35
\* C35: when two send_friend_request calls for one pair of users run side
\* by side, the check for a pending request and the insert being separate
\* steps, at most one pending friend request between the two exists once
\* both calls are through.
C35_OnePendingAfterRace ==
    in_flight = NoRequests =>
        \A a, b \in FriendUsers : Cardinality(pending_between(a, b)) <= 1

\* --------------------------------- file server: two POSTs side by side
\* server.py run serves with ThreadingHTTPServer: every request is handled
\* in a thread of its own.  handle_api_post loads the whole file first
\* (db = load_db()), changes the loaded copy and writes the whole copy back
\* (save_db(db)); nothing locks the file in between.  The load is a step and
\* the rest of the handler, save and response included, is a step.

\* The POST bodies: a session is started, a set is logged, a session is
\* finished.
PostRequests ==
    {[op |-> "start", template_id |-> t] : t \in TemplateIds}
        \cup {[op |-> "log-set", session_id |-> s, log |-> l] :
                  s \in SessionIds, l \in SetInputs}
        \cup {[op |-> "finish", session_id |-> s] : s \in SessionIds}

\* The handlers that have loaded the file and not answered yet, counted
\* against MaxRows with the rows inserted.
posts_in_flight == Cardinality({w \in Workers : in_flight[w].pc = "loaded"})

\* server.py handle_api_post, `db = load_db()`: the file as it is now.
srv_post_load(w, req) ==
    /\ backend = "file"
    /\ in_flight[w] = Idle
    /\ rows_inserted + posts_in_flight < MaxRows
    /\ in_flight' = [in_flight EXCEPT ![w] =
           [pc |-> "loaded", db |-> db, req |-> req]]
    /\ UNCHANGED <<backend, api_vars, db, next_session_id, next_set_log_id,
                   programs, exercises, template_exercises, next_id, fork,
                   friend_vars>>

\* server.py handle_api_post after the load, for the three session
\* endpoints: the HTTP status, and the copy as the handler has changed it.
srv_post_result(d, req) ==
    IF req.op = "start"
    THEN LET i == find_item(d.workout_templates, req.template_id)
         IN  IF i = 0 THEN [status |-> 404, db |-> d]
             ELSE [status |-> 201,
                   db |-> [d EXCEPT !.sessions = Append(@,
                       [id |-> next_session_id,
                        template_id |-> d.workout_templates[i].id,
                        program_id |-> d.workout_templates[i].program_id,
                        date |-> today,
                        set_logs |-> << >>,
                        status |-> "in_progress"])]]
    ELSE LET i == find_item(d.sessions, req.session_id)
         IN  IF i = 0 THEN [status |-> 404, db |-> d]
             ELSE IF req.op = "log-set"
             THEN [status |-> 201,
                   db |-> [d EXCEPT !.sessions[i].set_logs =
                               Append(@, new_file_set_log(req.log))]]
             ELSE [status |-> 200,
                   db |-> [d EXCEPT
                       !.sessions[i].status = "done",
                       !.personal_bests =
                           file_update_personal_bests(@, d.sessions[i].date,
                                                      d.sessions[i].set_logs)]]

\* server.py handle_api_post from the lookup to the response: an error
\* response leaves the file alone, a success is answered after
\* save_db(db) has written the handler's copy over the file.
srv_post_save(w) ==
    LET f == in_flight[w]
        r == srv_post_result(f.db, f.req)
    IN  /\ backend = "file"
        /\ f.pc = "loaded"
        /\ in_flight' = [in_flight EXCEPT ![w] = Idle]
        /\ IF r.status = 404
           THEN UNCHANGED <<db, next_session_id, next_set_log_id>>
           ELSE /\ db' = r.db
                /\ next_session_id' =
                       IF f.req.op = "start" THEN next_session_id + 1
                       ELSE next_session_id
                /\ next_set_log_id' =
                       IF f.req.op = "log-set" THEN next_set_log_id + 1
                       ELSE next_set_log_id
        /\ UNCHANGED <<backend, api_vars, programs, exercises,
                       template_exercises, next_id, fork, friend_vars>>

InitFileRace == Init /\ backend = "file"

NextFileRace ==
    \/ \E w \in Workers, req \in PostRequests : srv_post_load(w, req)
    \/ \E w \in Workers : srv_post_save(w)

SpecFileRace == InitFileRace /\ [][NextFileRace]_vars

\* ------------------------------------------------------------------ C36
\* The ids of the set logs stored in the file.
stored_set_log_ids ==
    UNION {{s.set_logs[k].id : k \in DOMAIN s.set_logs} : s \in file_sessions}

\* C36: in the file server, once every handler running side by side has
\* answered, every write answered with a success is in the stored file:
\* every session id and every set log id handed out in a 201 response names
\* a session or a set log of db.json.
C36_AcknowledgedWritesStored ==
    in_flight = NoRequests =>
        /\ \A id \in 1..(next_session_id - 1) : find_item(db.sessions, id) # 0
        /\ \A id \in 1..(next_set_log_id - 1) : id \in stored_set_log_ids

\* ------------------------------------------------------------------ C37
\* The friend requests between a and b, in either direction, that have been
\* accepted.
accepted_between(a, b) ==
    {fr \in friend_requests :
         /\ fr.status = "accepted"
         /\ {fr.from_user_id, fr.to_user_id} = {a, b}}

C37_state ==
    \A a, b \in FriendUsers :
        a # b => (rows_of_pair(a, b) # {} <=> accepted_between(a, b) # {})

C37_step ==
    /\ friendships \subseteq friendships'
    /\ \A a, b \in FriendUsers :
           (accepted_between(a, b) = {} /\ accepted_between(a, b)' # {})
               <=> (rows_of_pair(a, b) = {} /\ rows_of_pair(a, b)' # {})
    /\ \A r \in RequestIds :
           \A fr \in get_friend_request(r) :
               (/\ fr.status = "pending"
                /\ accept_friend_request(fr.to_user_id, r)
                /\ friend_requests' # friend_requests) =>
                   rows_of_pair(fr.from_user_id, fr.to_user_id)' # {}

\* C37: a Friendship row exists for a pair of users exactly when a friend
\* request between the two has been accepted.  Accepting a request leaves
\* the pair's Friendship in place, a Friendship appears in no step other
\* than the one that accepts a request of the pair, and no step removes one.
C37_FriendshipIffAccepted == []C37_state /\ [][C37_step]_vars

\* The request of 3 to 2 has been accepted and the one of 1 to 2 rejected:
\* 2 and 3 have their Friendship, 1 and 2 have none.
C37_Witness ==
    /\ accepted_between(2, 3) # {}
    /\ rows_of_pair(2, 3) # {}
    /\ \E fr \in friend_requests :
           /\ fr.from_user_id = 1 /\ fr.to_user_id = 2
           /\ fr.status = "rejected"
    /\ rows_of_pair(1, 2) = {}

\* ------------------------------------------------------------------ C38
\* The API's derivation run once more over session sess, on the rows pbs,
\* changes nothing, in whichever order the set logs are selected.
api_rerun_changes_nothing(pbs, sess) ==
    \A logs \in select_all(logs_of(sess.id)) :
        api_merge_logs(pbs, sess.owner_id, sess, logs) = pbs

\* The same for the file backend, on the list pbs.
file_rerun_changes_nothing(pbs, session) ==
    file_update_personal_bests(pbs, session.date, session.set_logs) = pbs

C38_api_step ==
    api_finish_like => \A u \in Users, s \in SessionIds :
        api_finish_step(u, s) =>
            \A sess \in get_session(s) :
                api_rerun_changes_nothing(personal_bests', sess)

C38_file_step ==
    file_finish_like => \A s \in SessionIds :
        file_finish_step(s) =>
            file_rerun_changes_nothing(
                db'.personal_bests, db'.sessions[find_item(db.sessions, s)])

\* C38: the PB derivation run a second time over the same session, its set
\* logs unchanged, is idempotent: after a finish, one more run over the
\* session leaves every PersonalBest row and every field as it is and adds
\* no row, in the API and in the file backend.
C38_RerunIsIdempotent == [][C38_api_step /\ C38_file_step]_vars

\* A session with the sets 100 x 5 and 90 x 8 has been finished and its
\* rows are stored: five in the API, four in the file.
C38_Witness ==
    \/ /\ backend = "api"
       /\ \E sess \in sessions :
              /\ sess.status = "done"
              /\ {[weight |-> l.weight, reps |-> l.reps] : l \in logs_of(sess.id)}
                     = {[weight |-> 100, reps |-> 5], [weight |-> 90, reps |-> 8]}
              /\ {q.set_log_id : q \in personal_bests}
                     = {l.id : l \in logs_of(sess.id)}
              /\ Cardinality(personal_bests) = 5
    \/ /\ backend = "file"
       /\ \E i \in DOMAIN db.sessions :
              /\ db.sessions[i].status = "done"
              /\ Len(db.sessions[i].set_logs) = 2
              /\ {[weight |-> l.weight, reps |-> l.reps] :
                      l \in file_logs(db.sessions[i])}
                     = {[weight |-> 100, reps |-> 5], [weight |-> 90, reps |-> 8]}
              /\ {q.set_log_id : q \in file_pbs}
                     = {l.id : l \in file_logs(db.sessions[i])}
              /\ Len(db.personal_bests) = 4

\* ------------------------------------------ CLI: the loop of copy_program
\* app.py copy_program one statement at a time, to see its loop end.  The
\* command works on the copy of the file it has loaded; `for tpl in
\* db["workout_templates"]` walks the list by position while the body
\* appends to the same list, so the loop reaches what it has appended.

\* app.py copy_program up to the loop: load_db, require_id, the new program
\* appended to the loaded copy.  n is the position the loop is at.
cli_copy_program_begin(w, args) ==
    /\ backend = "file"
    /\ in_flight[w] = Idle
    /\ next_id.program <= MaxPrograms
    /\ IF cli_copy_program_outcome(args.program_id) # "copied"
       THEN UNCHANGED vars
       ELSE LET program == db.programs[find_item(db.programs, args.program_id)]
                new_program_item ==
                    [program EXCEPT
                        !.id = next_id.program,
                        !.name = IF args.name # <<>> THEN args.name
                                 ELSE program.name \o <<"(copy)">>,
                        !.version = args.version,
                        !.status = "active",
                        !.start_date = args.start_date,
                        !.end_date = args.end_date]
            IN  /\ in_flight' = [in_flight EXCEPT ![w] =
                       [pc |-> "copy",
                        db |-> [db EXCEPT !.programs = Append(@, new_program_item)],
                        program_id |-> program.id,
                        new_program_id |-> new_program_item.id,
                        n |-> 1]]
                /\ next_id' = [next_id EXCEPT !.program = @ + 1]
                /\ UNCHANGED <<backend, api_vars, db, next_session_id,
                               next_set_log_id, programs, exercises,
                               template_exercises, fork, friend_vars>>

\* One turn of `for tpl in db["workout_templates"]`: the template at
\* position n is skipped when it is of another program, copied to the end
\* of the list otherwise.
cli_copy_program_turn(w) ==
    LET f == in_flight[w]
    IN  /\ backend = "file"
        /\ f.pc = "copy"
        /\ f.n <= Len(f.db.workout_templates)
        /\ LET tpl == f.db.workout_templates[f.n]
           IN  IF tpl.program_id # f.program_id
               THEN /\ in_flight' = [in_flight EXCEPT ![w].n = @ + 1]
                    /\ UNCHANGED next_id
               ELSE /\ in_flight' = [in_flight EXCEPT
                           ![w].n = @ + 1,
                           ![w].db.workout_templates =
                               Append(@, new_tpl(tpl, f.new_program_id,
                                                 next_id.template,
                                                 next_id.template_exercise))]
                    /\ next_id' = [next_id EXCEPT
                           !.template = @ + 1,
                           !.template_exercise = @ + Len(tpl.exercises)]
        /\ UNCHANGED <<backend, api_vars, db, next_session_id, next_set_log_id,
                       programs, exercises, template_exercises, fork,
                       friend_vars>>

\* The loop is over: save_db(db) writes the copy, the command ends.
cli_copy_program_save(w) ==
    LET f == in_flight[w]
    IN  /\ backend = "file"
        /\ f.pc = "copy"
        /\ f.n > Len(f.db.workout_templates)
        /\ db' = f.db
        /\ in_flight' = [in_flight EXCEPT ![w] = Idle]
        /\ UNCHANGED <<backend, api_vars, next_session_id, next_set_log_id,
                       programs, exercises, template_exercises, next_id, fork,
                       friend_vars>>

InitCopyLoop == InitFork /\ backend = "file"

NextCopyLoop ==
    \/ \E w \in Workers, args \in CopyArgs : cli_copy_program_begin(w, args)
    \/ \E w \in Workers : cli_copy_program_turn(w)
    \/ \E w \in Workers : cli_copy_program_save(w)
    \/ \E p \in ForkProgramIds : srv_delete_program(p)
    \/ \E t \in ForkProgramIds : srv_delete_template(t)

\* A command that has been started keeps running: the process takes its
\* next statement whatever the other processes do.
SpecCopyLoop ==
    /\ InitCopyLoop
    /\ [][NextCopyLoop]_vars
    /\ \A w \in Workers :
           WF_vars(cli_copy_program_turn(w) \/ cli_copy_program_save(w))

\* ------------------------------------------------------------------ C39
\* The templates of program p in the list tpls, counted.
templates_of(tpls, p) == Len(SelectSeq(tpls, LAMBDA tpl : tpl.program_id = p))

\* While the command runs, the templates of the source in its list stay
\* the ones the loop began with, the loop has made at most one copy of each
\* and, once it is over, exactly one.
C39_state ==
    \A w \in Workers :
        in_flight[w].pc = "copy" =>
            LET f == in_flight[w]
                tpls == f.db.workout_templates
            IN  /\ f.new_program_id # f.program_id
                /\ templates_of(tpls, f.new_program_id)
                       = templates_of(SubSeq(tpls, 1, f.n - 1), f.program_id)
                /\ f.n > Len(tpls) =>
                       templates_of(tpls, f.new_program_id)
                           = templates_of(tpls, f.program_id)

\* A turn of the loop at a template the command has appended itself copies
\* nothing, and no turn changes the templates of the source.
C39_step ==
    \A w \in Workers :
        (in_flight[w].pc = "copy" /\ in_flight'[w].pc = "copy") =>
            LET f == in_flight[w]
                g == in_flight'[w]
            IN  /\ templates_of(g.db.workout_templates, f.program_id)
                       = templates_of(f.db.workout_templates, f.program_id)
                /\ (/\ g.n = f.n + 1
                    /\ f.db.workout_templates[f.n].program_id = f.new_program_id)
                       => g.db.workout_templates = f.db.workout_templates

\* C39: the copy command of the CLI comes to its end although its loop runs
\* over the list it appends to: what it appends belongs to the new program,
\* the loop passes over it without copying it again, and so one new template
\* is made per template of the source program.
C39_CopyLoopTerminates ==
    /\ []C39_state
    /\ [][C39_step]_vars
    /\ \A w \in Workers : (in_flight[w].pc = "copy") ~> (in_flight[w] = Idle)

\* The loop of a copy of program 1 has gone past the three templates it
\* began with and stands at the first of the two it has appended.
C39_Witness ==
    \E w \in Workers :
        /\ in_flight[w].pc = "copy"
        /\ in_flight[w].program_id = 1
        /\ in_flight[w].n = 4
        /\ Len(in_flight[w].db.workout_templates) = 5
        /\ in_flight[w].db.workout_templates[4].program_id
               = in_flight[w].new_program_id
====
